---- MODULE Spec2Model ----
(***************************************************************************)
(* Model of the manuscript extraction pipeline (account/extractors.py) and *)
(* of the LaTeX renderer helpers (account/converter.py).                   *)
(*                                                                         *)
(* Texts are sequences of one-character strings, so that the regular       *)
(* expressions, the whitespace normalisation, the splitting and the        *)
(* escaping of the code are computed and not assumed.                      *)
(***************************************************************************)
EXTENDS Integers, Sequences, FiniteSets, TLC

\* ------------------------------------------------------------------------
\* Characters and Python string primitives
\* ------------------------------------------------------------------------

UpperT == <<"A","B","C","D","E","F","G","H","I","J","K","L","M",
            "N","O","P","Q","R","S","T","U","V","W","X","Y","Z">>

LowerT == <<"a","b","c","d","e","f","g","h","i","j","k","l","m",
            "n","o","p","q","r","s","t","u","v","w","x","y","z">>

DigitT == <<"0","1","2","3","4","5","6","7","8","9">>

Range(s) == {s[k] : k \in DOMAIN s}

IsSpace(c) == c \in {" ", "\t", "\n"}

IsDigit(c) == c \in Range(DigitT)

\* \w of the re module
IsWord(c) == c \in Range(UpperT) \cup Range(LowerT) \cup Range(DigitT) \cup {"_"}

LowerChar(c) ==
    IF c \in Range(UpperT)
    THEN LowerT[CHOOSE k \in DOMAIN UpperT : UpperT[k] = c]
    ELSE c

\* str.lower()
Lower(t) == [k \in DOMAIN t |-> LowerChar(t[k])]

\* str.startswith(p)
StartsWith(t, p) == Len(t) >= Len(p) /\ SubSeq(t, 1, Len(p)) = p

\* t[k:] with a 0-based k
From(t, k) == SubSeq(t, k + 1, Len(t))

\* str.strip(): leading and trailing whitespace removed
Strip(t) ==
    LET keep == {k \in DOMAIN t : ~IsSpace(t[k])}
    IN  IF keep = {} THEN <<>>
        ELSE SubSeq(t, CHOOSE a \in keep : \A b \in keep : a <= b,
                       CHOOSE a \in keep : \A b \in keep : a >= b)

\* str.lstrip(chars)
LStripChars(t, chars) ==
    LET keep == {k \in DOMAIN t : t[k] \notin chars}
    IN  IF keep = {} THEN <<>>
        ELSE SubSeq(t, CHOOSE a \in keep : \A b \in keep : a <= b, Len(t))

\* re.sub(r'\s+', ' ', text)
CollapseSpace(t) ==
    LET F[k \in 0..Len(t)] ==
            IF k = 0 THEN <<>>
            ELSE IF IsSpace(t[k])
                 THEN IF k > 1 /\ IsSpace(t[k-1]) THEN F[k-1]
                      ELSE Append(F[k-1], " ")
                 ELSE Append(F[k-1], t[k])
    IN  F[Len(t)]

clean_text(t) == Strip(CollapseSpace(t))

\* number of leading characters of t that satisfy the class cls
RECURSIVE RunLen(_, _)
RunLen(t, cls) ==
    IF t = <<>> \/ Head(t) \notin cls THEN 0 ELSE 1 + RunLen(Tail(t), cls)

RECURSIVE ToInt(_)
ToInt(ds) ==
    IF ds = <<>> THEN 0
    ELSE 10 * ToInt(SubSeq(ds, 1, Len(ds) - 1))
         + ((CHOOSE k \in DOMAIN DigitT : DigitT[k] = ds[Len(ds)]) - 1)

\* f"{n}" for a natural number n
RECURSIVE ToStr(_)
ToStr(n) ==
    IF n < 10 THEN <<DigitT[n + 1]>>
    ELSE Append(ToStr(n \div 10), DigitT[(n % 10) + 1])

\* sep.join(parts)
RECURSIVE Join(_, _)
Join(sep, parts) ==
    IF parts = <<>> THEN <<>>
    ELSE IF Len(parts) = 1 THEN parts[1]
    ELSE parts[1] \o sep \o Join(sep, Tail(parts))

\* re.split(r',|;', t) and re.split(r'[,;]', t)
RECURSIVE SplitOn(_, _)
SplitOn(t, seps) ==
    LET hits == {k \in DOMAIN t : t[k] \in seps}
    IN  IF hits = {} THEN <<t>>
        ELSE LET k == CHOOSE a \in hits : \A b \in hits : a <= b
             IN  <<SubSeq(t, 1, k - 1)>> \o SplitOn(From(t, k), seps)

\* [p.strip() for p in parts]
StripEach(parts) == [k \in DOMAIN parts |-> Strip(parts[k])]

\* [clean_text(cell.text) for cell in cells]
CleanEach(cells) == [k \in DOMAIN cells |-> clean_text(cells[k])]

\* the elements of a set of integers, in increasing order
RECURSIVE Sorted(_)
Sorted(S) ==
    IF S = {} THEN <<>>
    ELSE LET m == CHOOSE a \in S : \A b \in S : a <= b
         IN  <<m>> \o Sorted(S \ {m})

\* ------------------------------------------------------------------------
\* String literals of extractors.py
\* ------------------------------------------------------------------------

L_abstract == <<"a","b","s","t","r","a","c","t">>

L_keywords == <<"k","e","y","w","o","r","d","s">>

L_key_terms == <<"k","e","y"," ","t","e","r","m","s">>

L_index_terms == <<"i","n","d","e","x"," ","t","e","r","m","s">>

L_figure == <<"f","i","g","u","r","e">>

L_fig == <<"f","i","g">>

L_reference == <<"r","e","f","e","r","e","n","c","e">>

L_heading == <<"h","e","a","d","i","n","g">>

L_list == <<"l","i","s","t">>

L_UntitledSection == <<"U","n","t","i","t","l","e","d"," ","S","e","c","t","i","o","n">>

L_Introduction == <<"I","n","t","r","o","d","u","c","t","i","o","n">>

L_Tables == <<"T","a","b","l","e","s">>

L_Table == <<"T","a","b","l","e">>

L_Fig == <<"F","i","g">>

L_FigureSp == <<"F","i","g","u","r","e"," ">>

L_figure_ == <<"f","i","g","u","r","e","_">>

L_fig_ == <<"f","i","g","_">>

L_png == <<"p","n","g">>

media_dir == <<"e","x","t","r","a","c","t","e","d","_","i","m","a","g","e","s">>

\* The null object of Python, where a dictionary is expected
None == [type |-> "None"]

\* The null object of Python, where an index is expected
NoIndex == -1

\* ------------------------------------------------------------------------
\* Regular expressions of extract_docx
\* ------------------------------------------------------------------------

\* re.match(r'abstract', text, re.I)
MatchAbstract(text) == StartsWith(Lower(text), L_abstract)

\* re.match(r'(keywords|key terms|index terms)\s*[:.]?', text, re.I)
MatchKeywords(text) ==
    \/ StartsWith(Lower(text), L_keywords)
    \/ StartsWith(Lower(text), L_key_terms)
    \/ StartsWith(Lower(text), L_index_terms)

\* re.match(r'references?', text, re.I)
MatchReferences(text) == StartsWith(Lower(text), L_reference)

\* class [\w\.-] of the e-mail pattern
EmailChars == Range(UpperT) \cup Range(LowerT) \cup Range(DigitT) \cup {"_", ".", "-"}

WordChars == Range(UpperT) \cup Range(LowerT) \cup Range(DigitT) \cup {"_"}

\* End (1-based, inclusive) of the match of [\w\.-]+@[\w\.-]+\.\w+ that
\* starts at position s of t, 0 when there is none.  Both groups are greedy:
\* the local part is the whole run up to '@', the domain backtracks to the
\* last '.' of its run that is followed by a word character.
EmailEndAt(t, s) ==
    LET a == RunLen(From(t, s - 1), EmailChars)
        q == s + a + 1
        r == RunLen(From(t, q - 1), EmailChars)
        dots == {k \in 2..r : /\ t[q + k - 1] = "."
                              /\ q + k <= Len(t)
                              /\ t[q + k] \in WordChars}
    IN  IF a = 0 \/ s + a > Len(t) \/ t[s + a] # "@" \/ dots = {} THEN 0
        ELSE LET k == CHOOSE x \in dots : \A y \in dots : x >= y
             IN  q + k - 1 + RunLen(From(t, q + k - 1), WordChars)

\* re.search(r'[\w\.-]+@[\w\.-]+\.\w+', t): [start, end] of the leftmost
\* match (1-based, inclusive), start = 0 when there is none
EmailSearch(t) ==
    LET starts == {s \in DOMAIN t : EmailEndAt(t, s) # 0}
    IN  IF starts = {} THEN [start |-> 0, end |-> 0]
        ELSE LET s == CHOOSE a \in starts : \A b \in starts : a <= b
             IN  [start |-> s, end |-> EmailEndAt(t, s)]

\* re.sub(r'[\w\.-]+@[\w\.-]+\.\w+', '', t)
RECURSIVE EmailRemove(_)
EmailRemove(t) ==
    LET m == EmailSearch(t)
    IN  IF m.start = 0 THEN t
        ELSE SubSeq(t, 1, m.start - 1) \o EmailRemove(From(t, m.end))

\* The attempt of (?:figure|fig)[\s\.]*(\d+)[\s:\.-]+(.*) after a prefix of
\* p characters
FigTry(text, p) ==
    LET r1 == From(text, p)
        r2 == From(r1, RunLen(r1, {" ", "\t", "\n", "."}))
        d  == RunLen(r2, Range(DigitT))
        r3 == From(r2, d)
        s  == RunLen(r3, {" ", "\t", "\n", ":", ".", "-"})
    IN  [ok |-> d >= 1 /\ s >= 1, num |-> SubSeq(r2, 1, d), rest |-> From(r3, s)]

\* re.match(r'(?:figure|fig)[\s\.]*(\d+)[\s:\.-]+(.*)', text, re.I)
FigMatch(text) ==
    IF StartsWith(Lower(text), L_figure) /\ FigTry(text, 6).ok THEN FigTry(text, 6)
    ELSE IF StartsWith(Lower(text), L_fig) THEN FigTry(text, 3)
    ELSE [ok |-> FALSE, num |-> <<>>, rest |-> <<>>]

\* The bullet glyph U+2022, one character
Bullet == "BULLET"

\* text.startswith(('\u2022', '-', '*'))
BulletChars == {Bullet, "-", "*"}

\* ------------------------------------------------------------------------
\* extract_docx: state
\* ------------------------------------------------------------------------

VARIABLES
    paras,              \* list(doc.paragraphs): records [text, style]
    doc_tables,         \* doc.tables: each table is the sequence of its rows
    rels,               \* doc.part.rels.values(): records [reltype, format, decodable]
    pc,                 \* position of the run in extract_docx
    i,                  \* the paragraph cursor (0-based, as in the code)
    content,            \* the returned dictionary
    author_block,
    a_idx,              \* position of the for loop over author_block
    in_abstract,
    in_keywords,
    abstract_lines,
    keywords,
    current_section,    \* None or the open section
    current_subsection, \* 0 for None, else the position in current_section.content
                        \* of the subsection the name is bound to
    fig_count,
    table_count,
    t_idx,              \* position of the for loop over doc.tables
    ref_section,        \* NoIndex for None, else the 0-based index of the references line
    refs,
    ref_id,
    r_idx,              \* position of the for loop over paras[ref_section+1:]
    files,              \* paths written under media_dir
    consumed            \* per paragraph, what the passes made of it (history)

docxVars == <<paras, doc_tables, rels, pc, i, content, author_block, a_idx,
              in_abstract, in_keywords, abstract_lines, keywords,
              current_section, current_subsection, fig_count, table_count,
              t_idx, ref_section, refs, ref_id, r_idx, files, consumed>>

\* LatexConverter: the call being made, its argument and its return value
VARIABLES
    conv_pc,            \* "clean_latex_text" or "format_references", then "returned"
    conv_in,
    conv_out

convVars == <<conv_pc, conv_in, conv_out>>

\* extract_pdf
VARIABLES
    pdf_pages,          \* the pages of the document: blocks, tables, images
    pdf_pc,             \* position of the run in extract_pdf
    page_num,
    combined,           \* the sorted items of the page
    item_idx,           \* position of the for loop over combined
    image_used,
    output,
    figures,
    tables,
    pdf_result          \* the returned dictionary

pdfVars == <<pdf_pages, pdf_pc, page_num, combined, item_idx, image_used,
             output, figures, tables, pdf_result>>

vars == <<docxVars, convVars, pdfVars>>

\* paras[i] of the code (0-based)
Para(k) == paras[k + 1]

is_heading(para) == StartsWith(Lower(para.style), L_heading)

\* re.match(r'heading\s*(\d+)', style.lower()); int(group(1)) if match else 1
get_heading_level(para) ==
    LET low == Lower(para.style)
        r1  == From(low, Len(L_heading))
        r2  == From(r1, RunLen(r1, {" ", "\t", "\n"}))
        d   == RunLen(r2, Range(DigitT))
    IN  IF StartsWith(low, L_heading) /\ d >= 1 THEN ToInt(SubSeq(r2, 1, d)) ELSE 1

EmptyContent ==
    [metadata |-> [title |-> <<>>, authors |-> <<>>, abstract |-> <<>>,
                   keywords |-> <<>>, figures |-> <<>>],
     body |-> <<>>, references |-> <<>>, tables |-> <<>>]

Mark(k, what) == [consumed EXCEPT ![k + 1] = @ \cup {what}]

\* ------------------------------------------------------------------------
\* extract_docx: title and author block
\* ------------------------------------------------------------------------

\* lines 57-63: skip the leading blank paragraphs, the next one is the title
TitleStep ==
    /\ pc = "title"
    /\ LET nonblank == {k \in 0..(Len(paras) - 1) : Strip(Para(k).text) # <<>>}
           first    == IF nonblank = {} THEN Len(paras)
                       ELSE CHOOSE a \in nonblank : \A b \in nonblank : a <= b
       IN  IF first < Len(paras)
           THEN /\ content' = [content EXCEPT !.metadata.title = clean_text(Para(first).text)]
                /\ i' = first + 1
                /\ consumed' = Mark(first, "title")
           ELSE /\ i' = first
                /\ UNCHANGED <<content, consumed>>
    /\ pc' = "authors"
    /\ UNCHANGED <<paras, doc_tables, rels, author_block, a_idx, in_abstract,
                   in_keywords, abstract_lines, keywords, current_section,
                   current_subsection, fig_count, table_count, t_idx,
                   ref_section, refs, ref_id, r_idx, files>>
    /\ UNCHANGED <<convVars, pdfVars>>

\* lines 66-74: one iteration of the author-block loop
AuthorScan ==
    /\ pc = "authors"
    /\ IF i >= Len(paras)
       THEN /\ pc' = "parse_authors"
            /\ UNCHANGED <<i, author_block, consumed>>
       ELSE LET text == clean_text(Para(i).text)
            IN  IF text = <<>>
                THEN /\ i' = i + 1
                     /\ UNCHANGED <<pc, author_block, consumed>>
                ELSE IF MatchAbstract(text) \/ is_heading(Para(i))
                THEN /\ pc' = "parse_authors"
                     /\ UNCHANGED <<i, author_block, consumed>>
                ELSE /\ author_block' = Append(author_block, text)
                     /\ i' = i + 1
                     /\ consumed' = Mark(i, "author")
                     /\ UNCHANGED pc
    /\ UNCHANGED <<paras, doc_tables, rels, content, a_idx, in_abstract,
                   in_keywords, abstract_lines, keywords, current_section,
                   current_subsection, fig_count, table_count, t_idx,
                   ref_section, refs, ref_id, r_idx, files>>
    /\ UNCHANGED <<convVars, pdfVars>>

\* ParseAuthor with the bug of requiring four parts before part 1 is a role
ParseAuthor_RoleNeedsFour(author_line) ==
    LET email_match  == EmailSearch(author_line)
        email        == IF email_match.start # 0
                        THEN SubSeq(author_line, email_match.start, email_match.end)
                        ELSE <<>>
        author_clean == Strip(EmailRemove(author_line))
        parts        == StripEach(SplitOn(author_clean, {",", ";"}))
    IN  IF Len(parts) >= 2
        THEN [name        |-> parts[1],
              role        |-> IF Len(parts) > 3 THEN parts[2] ELSE <<>>,
              affiliation |-> IF Len(parts) > 3
                              THEN Join(<<",", " ">>, SubSeq(parts, 3, Len(parts)))
                              ELSE parts[2],
              email       |-> email]
        ELSE [name |-> author_clean, role |-> <<>>, affiliation |-> <<>>,
              email |-> email]

\* ParseAuthor with the bug of joining the affiliation from part 1 on
ParseAuthor_JoinFromRole(author_line) ==
    LET email_match  == EmailSearch(author_line)
        email        == IF email_match.start # 0
                        THEN SubSeq(author_line, email_match.start, email_match.end)
                        ELSE <<>>
        author_clean == Strip(EmailRemove(author_line))
        parts        == StripEach(SplitOn(author_clean, {",", ";"}))
    IN  IF Len(parts) >= 2
        THEN [name        |-> parts[1],
              role        |-> IF Len(parts) > 2 THEN parts[2] ELSE <<>>,
              affiliation |-> IF Len(parts) > 2
                              THEN Join(<<",", " ">>, SubSeq(parts, 2, Len(parts)))
                              ELSE parts[2],
              email       |-> email]
        ELSE [name |-> author_clean, role |-> <<>>, affiliation |-> <<>>,
              email |-> email]

\* lines 77-94: the Author of one author-block line
ParseAuthor(author_line) ==
    LET email_match  == EmailSearch(author_line)
        email        == IF email_match.start # 0
                        THEN SubSeq(author_line, email_match.start, email_match.end)
                        ELSE <<>>
        author_clean == Strip(EmailRemove(author_line))
        parts        == StripEach(SplitOn(author_clean, {",", ";"}))
    IN  IF Len(parts) >= 2
        THEN [name        |-> parts[1],
              role        |-> IF Len(parts) > 2 THEN parts[2] ELSE <<>>,
              affiliation |-> IF Len(parts) > 2
                              THEN Join(<<",", " ">>, SubSeq(parts, 3, Len(parts)))
                              ELSE parts[2],
              email       |-> email]
        ELSE [name |-> author_clean, role |-> <<>>, affiliation |-> <<>>,
              email |-> email]

\* lines 76-94: one iteration of the loop over author_block
AuthorParse ==
    /\ pc = "parse_authors"
    /\ IF a_idx < Len(author_block)
       THEN /\ content' = [content EXCEPT !.metadata.authors =
                               Append(@, ParseAuthor(author_block[a_idx + 1]))]
            /\ a_idx' = a_idx + 1
            /\ UNCHANGED pc
       ELSE /\ pc' = "abstract"
            /\ UNCHANGED <<content, a_idx>>
    /\ UNCHANGED <<paras, doc_tables, rels, i, author_block, in_abstract,
                   in_keywords, abstract_lines, keywords, current_section,
                   current_subsection, fig_count, table_count, t_idx,
                   ref_section, refs, ref_id, r_idx, files, consumed>>
    /\ UNCHANGED <<convVars, pdfVars>>

\* ------------------------------------------------------------------------
\* extract_docx: abstract and keywords
\* ------------------------------------------------------------------------

\* lines 132-135: the non-empty stripped pieces of a keywords line
SplitKeywords(text) ==
    SelectSeq(StripEach(SplitOn(text, {",", ";"})), LAMBDA kw : kw # <<>>)

\* LeaveAbstract with the bug of a `continue` where the loop has its `break`
LeaveAbstract_Continue ==
    UNCHANGED <<pc, content, i, in_abstract, in_keywords, abstract_lines, keywords,
                consumed>>

\* lines 141-146: what follows the abstract/keywords loop
LeaveAbstract ==
    /\ pc' = "body"
    /\ content' = IF keywords # <<>>
                  THEN [content EXCEPT !.metadata.keywords = keywords]
                  ELSE content
    /\ UNCHANGED <<i, in_abstract, in_keywords, abstract_lines, keywords, consumed>>

\* lines 101-139: one iteration of the abstract/keywords loop
AbstractStep ==
    /\ pc = "abstract"
    /\ IF i >= Len(paras) THEN LeaveAbstract
       ELSE LET text == clean_text(Para(i).text)
            IN  IF text = <<>>
                THEN /\ i' = i + 1
                     /\ UNCHANGED <<pc, content, in_abstract, in_keywords,
                                    abstract_lines, keywords, consumed>>
                ELSE IF MatchAbstract(text)
                THEN /\ in_abstract' = TRUE
                     /\ i' = i + 1
                     /\ consumed' = Mark(i, "abstract_head")
                     /\ UNCHANGED <<pc, content, in_keywords, abstract_lines, keywords>>
                ELSE IF in_abstract /\ MatchKeywords(text)
                THEN /\ content' = [content EXCEPT !.metadata.abstract =
                                        Join(<<" ">>, abstract_lines)]
                     /\ in_abstract' = FALSE
                     /\ in_keywords' = TRUE
                     /\ i' = i + 1
                     /\ consumed' = Mark(i, "keywords_head")
                     /\ UNCHANGED <<pc, abstract_lines, keywords>>
                ELSE IF in_abstract
                THEN IF is_heading(Para(i))
                     THEN /\ content' = [content EXCEPT !.metadata.abstract =
                                             Join(<<" ">>, abstract_lines)]
                          /\ in_abstract' = FALSE
                          /\ UNCHANGED <<pc, i, in_keywords, abstract_lines,
                                         keywords, consumed>>
                     ELSE /\ abstract_lines' = Append(abstract_lines, text)
                          /\ i' = i + 1
                          /\ consumed' = Mark(i, "abstract")
                          /\ UNCHANGED <<pc, content, in_abstract, in_keywords, keywords>>
                ELSE IF in_keywords
                THEN IF is_heading(Para(i))
                     THEN /\ in_keywords' = FALSE
                          /\ UNCHANGED <<pc, i, content, in_abstract,
                                         abstract_lines, keywords, consumed>>
                     ELSE /\ keywords' = keywords \o SplitKeywords(text)
                          /\ i' = i + 1
                          /\ consumed' = Mark(i, "keywords")
                          /\ UNCHANGED <<pc, content, in_abstract, in_keywords,
                                         abstract_lines>>
                ELSE LeaveAbstract
    /\ UNCHANGED <<paras, doc_tables, rels, author_block, a_idx, current_section,
                   current_subsection, fig_count, table_count, t_idx,
                   ref_section, refs, ref_id, r_idx, files>>
    /\ UNCHANGED <<convVars, pdfVars>>

\* ------------------------------------------------------------------------
\* extract_docx: body pass
\* ------------------------------------------------------------------------

Section(heading, cont) == [type |-> "section", heading |-> heading, content |-> cont]

Subsection(heading) == [type |-> "subsection", heading |-> heading, content |-> <<>>]

\* container["content"] of lines 206-216
ContainerContent(sec, sub) ==
    IF sub # 0 THEN sec.content[sub].content ELSE sec.content

\* the open section after container["content"] became cont
WithContainerContent(sec, sub, cont) ==
    IF sub # 0 THEN [sec EXCEPT !.content[sub].content = cont]
    ELSE [sec EXCEPT !.content = cont]

\* Flush with the bug of replacing body instead of appending to it
Flush_Replace(body, sec) == IF sec # None THEN <<sec>> ELSE body

\* lines 158-159 and 241-242: body after the open section, if any, was appended
Flush(body, sec) == IF sec # None THEN Append(body, sec) ELSE body

\* OpenSubsection with the bug of always wrapping the subsection in a new
\* "Untitled Section"
OpenSubsection_AlwaysWrap(sec, text) ==
    [section |-> Section(L_UntitledSection, <<Subsection(text)>>), cursor |-> 1]

\* OpenSubsection with the bug of leaving the cursor on the first node of
\* the open section
OpenSubsection_CursorFirst(sec, text) ==
    IF sec # None
    THEN [section |-> [sec EXCEPT !.content = Append(@, Subsection(text))],
          cursor  |-> 1]
    ELSE [section |-> Section(L_UntitledSection, <<Subsection(text)>>),
          cursor  |-> 1]

\* lines 167-184: the open section and the subsection cursor after a
\* level-2 heading
OpenSubsection(sec, text) ==
    IF sec # None
    THEN [section |-> [sec EXCEPT !.content = Append(@, Subsection(text))],
          cursor  |-> Len(sec.content) + 1]
    ELSE [section |-> Section(L_UntitledSection, <<Subsection(text)>>),
          cursor  |-> 1]

\* the paragraph the body loop is looking at, when it is a non-blank one
BodyAt == pc = "body" /\ i < Len(paras) /\ clean_text(Para(i).text) # <<>>

bodyRest == <<convVars, pdfVars, paras, doc_tables, rels, author_block, a_idx, in_abstract,
              in_keywords, abstract_lines, keywords, table_count, t_idx,
              ref_section, refs, ref_id, r_idx>>

\* lines 151-153: a blank paragraph
BodyBlank ==
    /\ pc = "body" /\ i < Len(paras) /\ clean_text(Para(i).text) = <<>>
    /\ i' = i + 1
    /\ UNCHANGED <<pc, content, current_section, current_subsection, fig_count,
                   files, consumed>>
    /\ UNCHANGED bodyRest

\* lines 155-186: a heading paragraph
BodyHeading ==
    /\ BodyAt /\ is_heading(Para(i))
    /\ LET text  == clean_text(Para(i).text)
           level == get_heading_level(Para(i))
       IN  IF level = 1
           THEN /\ content' = [content EXCEPT !.body = Flush(@, current_section)]
                /\ current_section' = Section(text, <<>>)
                /\ current_subsection' = 0
           ELSE IF level = 2
           THEN /\ current_section' = OpenSubsection(current_section, text).section
                /\ current_subsection' = OpenSubsection(current_section, text).cursor
                /\ UNCHANGED content
           ELSE UNCHANGED <<content, current_section, current_subsection>>
    /\ i' = i + 1
    /\ consumed' = Mark(i, "heading")
    /\ UNCHANGED <<pc, fig_count, files>>
    /\ UNCHANGED bodyRest

\* position of the first image relationship, 0 when there is none
FirstImageRel ==
    LET imgs == {k \in DOMAIN rels : rels[k].reltype = "image"}
    IN  IF imgs = {} THEN 0 ELSE CHOOSE a \in imgs : \A b \in imgs : a <= b

\* save_image with the bug of taking the next number when the directory
\* already holds a file of the name
save_image_Unused(image_part, index, caption) ==
    LET ext      == IF image_part.format # <<>> THEN Lower(image_part.format) ELSE L_png
        taken    == (media_dir \o <<"/">> \o L_figure_ \o ToStr(index) \o <<".">> \o ext)
                        \in files
        filename == L_figure_ \o ToStr(IF taken THEN index + 1 ELSE index) \o <<".">> \o ext
    IN  [id       |-> L_fig_ \o ToStr(index),
         filename |-> filename,
         caption  |-> caption,
         path     |-> media_dir \o <<"/">> \o filename]

\* lines 39-52: the record save_image returns when nothing raises
save_image(image_part, index, caption) ==
    LET ext      == IF image_part.format # <<>> THEN Lower(image_part.format) ELSE L_png
        filename == L_figure_ \o ToStr(index) \o <<".">> \o ext
    IN  [id       |-> L_fig_ \o ToStr(index),
         filename |-> filename,
         caption  |-> caption,
         path     |-> media_dir \o <<"/">> \o filename]

\* BodyFigure with the bug of counting the figures that were not saved
BodyFigure_CountsFailures ==
    /\ BodyAt /\ ~is_heading(Para(i)) /\ FigMatch(clean_text(Para(i).text)).ok
    /\ LET fig_match == FigMatch(clean_text(Para(i).text))
           fig_num   == fig_match.num
           caption   == Strip(fig_match.rest)
           r         == FirstImageRel
       IN  \E written \in BOOLEAN :
             LET image_info ==
                     IF r # 0 /\ rels[r].decodable /\ written
                     THEN save_image(rels[r], fig_count,
                                     L_FigureSp \o fig_num \o <<":", " ">> \o caption)
                     ELSE None
                 fig_item == [type |-> "figure", label |-> L_Fig \o fig_num,
                              caption |-> caption, content |-> image_info.path]
             IN  /\ (r = 0 \/ ~rels[r].decodable) => ~written
                 /\ IF image_info # None
                    THEN /\ content' = [content EXCEPT !.metadata.figures =
                                            Append(@, image_info)]
                         /\ fig_count' = fig_count + 1
                         /\ files' = files \cup {image_info.path}
                         /\ current_section' =
                              IF current_section # None
                              THEN WithContainerContent(current_section, current_subsection,
                                       Append(ContainerContent(current_section,
                                                               current_subsection), fig_item))
                              ELSE current_section
                    ELSE /\ fig_count' = fig_count + 1
                         /\ UNCHANGED <<content, files, current_section>>
    /\ i' = i + 1
    /\ consumed' = Mark(i, "figure")
    /\ UNCHANGED <<pc, current_subsection>>
    /\ UNCHANGED bodyRest

\* lines 188-211: a figure caption paragraph.  Opening a blob that is no
\* image raises; writing the file may raise whatever the blob is.
BodyFigure ==
    /\ BodyAt /\ ~is_heading(Para(i)) /\ FigMatch(clean_text(Para(i).text)).ok
    /\ LET fig_match == FigMatch(clean_text(Para(i).text))
           fig_num   == fig_match.num
           caption   == Strip(fig_match.rest)
           r         == FirstImageRel
       IN  \E written \in BOOLEAN :
             LET image_info ==
                     IF r # 0 /\ rels[r].decodable /\ written
                     THEN save_image(rels[r], fig_count,
                                     L_FigureSp \o fig_num \o <<":", " ">> \o caption)
                     ELSE None
                 fig_item == [type |-> "figure", label |-> L_Fig \o fig_num,
                              caption |-> caption, content |-> image_info.path]
             IN  /\ (r = 0 \/ ~rels[r].decodable) => ~written
                 /\ IF image_info # None
                    THEN /\ content' = [content EXCEPT !.metadata.figures =
                                            Append(@, image_info)]
                         /\ fig_count' = fig_count + 1
                         /\ files' = files \cup {image_info.path}
                         /\ current_section' =
                              IF current_section # None
                              THEN WithContainerContent(current_section, current_subsection,
                                       Append(ContainerContent(current_section,
                                                               current_subsection), fig_item))
                              ELSE current_section
                    ELSE UNCHANGED <<content, fig_count, files, current_section>>
    /\ i' = i + 1
    /\ consumed' = Mark(i, "figure")
    /\ UNCHANGED <<pc, current_subsection>>
    /\ UNCHANGED bodyRest

\* lines 225-238: the container content after a list item or a paragraph
AddText(cont, para, text) ==
    IF StartsWith(Lower(para.style), L_list) \/ (text # <<>> /\ text[1] \in BulletChars)
    THEN LET item == Strip(LStripChars(text, BulletChars \cup {" "}))
         IN  IF cont # <<>> /\ cont[Len(cont)].type = "list"
             THEN [cont EXCEPT ![Len(cont)].items = Append(@, item)]
             ELSE Append(cont, [type |-> "list", items |-> <<item>>])
    ELSE Append(cont, [type |-> "paragraph", text |-> text])

\* lines 213-239: a list item or a plain paragraph
BodyText ==
    /\ BodyAt /\ ~is_heading(Para(i)) /\ ~FigMatch(clean_text(Para(i).text)).ok
    /\ LET text == clean_text(Para(i).text)
           sec  == IF current_section # None THEN current_section
                   ELSE Section(L_Introduction, <<>>)
       IN  /\ current_section' =
                 WithContainerContent(sec, current_subsection,
                     AddText(ContainerContent(sec, current_subsection), Para(i), text))
           /\ consumed' = Mark(i, IF StartsWith(Lower(Para(i).style), L_list)
                                     \/ text[1] \in BulletChars
                                  THEN "list" ELSE "paragraph")
    /\ i' = i + 1
    /\ UNCHANGED <<pc, content, current_subsection, fig_count, files>>
    /\ UNCHANGED bodyRest

\* lines 241-244: the end of the body loop
BodyExit ==
    /\ pc = "body" /\ i >= Len(paras)
    /\ content' = [content EXCEPT !.body = Flush(@, current_section)]
    /\ pc' = "tables"
    /\ UNCHANGED <<i, current_section, current_subsection, fig_count, files, consumed>>
    /\ UNCHANGED bodyRest

\* ------------------------------------------------------------------------
\* extract_docx: table pass and reference pass
\* ------------------------------------------------------------------------

tableRest == <<convVars, pdfVars, paras, doc_tables, rels, i, author_block, a_idx, in_abstract,
               in_keywords, abstract_lines, keywords, current_section,
               current_subsection, fig_count, ref_section, refs, ref_id, r_idx,
               files, consumed>>

\* TableData with the bug of keeping the header row among the rows
TableData_HeaderInRows(table, count) ==
    [type   |-> "table",
     label  |-> L_Table \o ToStr(count),
     header |-> CleanEach(table[1]),
     rows   |-> [k \in 1..Len(table) |-> CleanEach(table[k])]]

\* lines 246-256: the dictionary built for a table that has rows
TableData(table, count) ==
    [type   |-> "table",
     label  |-> L_Table \o ToStr(count),
     header |-> CleanEach(table[1]),
     rows   |-> [k \in 1..(Len(table) - 1) |-> CleanEach(table[k + 1])]]

\* lines 245-266: one iteration of the loop over doc.tables
TableStep ==
    /\ pc = "tables"
    /\ IF t_idx < Len(doc_tables)
       THEN LET table      == doc_tables[t_idx + 1]
                table_data == TableData(table, table_count)
            IN  /\ IF table # <<>>
                   THEN /\ content' =
                             [content EXCEPT
                                !.tables = Append(@, table_data),
                                !.body   = IF @ # <<>>
                                           THEN [@ EXCEPT ![Len(@)].content =
                                                     Append(@, table_data)]
                                           ELSE <<Section(L_Tables, <<table_data>>)>>]
                        /\ table_count' = table_count + 1
                   ELSE UNCHANGED <<content, table_count>>
                /\ t_idx' = t_idx + 1
                /\ UNCHANGED pc
       ELSE /\ pc' = "find_references"
            /\ UNCHANGED <<content, table_count, t_idx>>
    /\ UNCHANGED tableRest

refRest == <<convVars, pdfVars, paras, doc_tables, rels, i, author_block, a_idx, in_abstract,
             in_keywords, abstract_lines, keywords, current_section,
             current_subsection, fig_count, table_count, t_idx, files>>

\* lines 268-275: the search for the references line; "if ref_section:" is
\* false for None and for the index 0
RefFind ==
    /\ pc = "find_references"
    /\ LET hits == {j \in 0..(Len(paras) - 1) : MatchReferences(clean_text(Para(j).text))}
           found == IF hits = {} THEN NoIndex
                    ELSE CHOOSE a \in hits : \A b \in hits : a <= b
       IN  /\ ref_section' = found
           /\ IF found # NoIndex /\ found # 0
              THEN /\ refs' = <<>>
                   /\ ref_id' = 1
                   /\ r_idx' = found + 1
                   /\ pc' = "references"
              ELSE /\ pc' = "done"
                   /\ UNCHANGED <<refs, ref_id, r_idx>>
    /\ UNCHANGED <<content, consumed>>
    /\ UNCHANGED refRest

\* NewReference with the bug of 0-based ids
NewReference_ZeroBased(id, text) == [id |-> ToStr(id - 1), citation |-> text]

\* lines 282-285: the Reference appended for a citation
NewReference(id, text) == [id |-> ToStr(id), citation |-> text]

\* lines 276-287: one iteration of the loop over paras[ref_section+1:]
RefStep ==
    /\ pc = "references"
    /\ IF r_idx < Len(paras)
       THEN LET text == clean_text(Para(r_idx).text)
            IN  IF text = <<>>
                THEN /\ r_idx' = r_idx + 1
                     /\ UNCHANGED <<pc, content, refs, ref_id, consumed>>
                ELSE IF is_heading(Para(r_idx))
                THEN /\ content' = [content EXCEPT !.references = refs]
                     /\ pc' = "done"
                     /\ UNCHANGED <<refs, ref_id, r_idx, consumed>>
                ELSE /\ refs' = Append(refs, NewReference(ref_id, text))
                     /\ ref_id' = ref_id + 1
                     /\ r_idx' = r_idx + 1
                     /\ consumed' = Mark(r_idx, "reference")
                     /\ UNCHANGED <<pc, content>>
       ELSE /\ content' = [content EXCEPT !.references = refs]
            /\ pc' = "done"
            /\ UNCHANGED <<refs, ref_id, r_idx, consumed>>
    /\ UNCHANGED ref_section
    /\ UNCHANGED refRest

\* ------------------------------------------------------------------------
\* extract_docx: the documents of the model
\* ------------------------------------------------------------------------

MaxBody == 3

MaxFree == 2

StyleNormal == <<"N","o","r","m","a","l">>

StyleH1 == <<"H","e","a","d","i","n","g"," ","1">>

StyleH2 == <<"H","e","a","d","i","n","g"," ","2">>

StyleH3 == <<"H","e","a","d","i","n","g"," ","3">>

StyleHeading == <<"H","e","a","d","i","n","g">>

StyleList == <<"L","i","s","t"," ","P","a","r","a","g","r","a","p","h">>

P(text, style) == [text |-> text, style |-> style]

T_Title == <<"T","i","t","l","e">>

T_Abstract == <<"A","b","s","t","r","a","c","t">>

T_Keywords == <<"K","e","y","w","o","r","d","s">>

T_References == <<"R","e","f","e","r","e","n","c","e","s">>

T_FigCaption == <<"F","i","g","."," ","1",":"," ","c">>

T_Bullet == <<"-"," ","b">>

T_Spaced == <<"[","7","]"," "," ","b">>

Corpus ==
    { P(<<" ">>, StyleNormal),
      P(<<"x">>, StyleNormal),
      P(T_Spaced, StyleNormal),
      P(T_Abstract, StyleNormal),
      P(T_Keywords, StyleNormal),
      P(T_References, StyleNormal),
      P(T_FigCaption, StyleNormal),
      P(T_Bullet, StyleNormal),
      P(<<"y">>, StyleList),
      P(<<"S">>, StyleH1),
      P(<<"R">>, StyleHeading),
      P(<<"T">>, StyleH2),
      P(<<"U">>, StyleH3) }

SeqsUpTo(S, n) == UNION {[1..k -> S] : k \in 0..n}

ImagePNG == [reltype |-> "image", format |-> <<"P","N","G">>, decodable |-> TRUE]

RelOther == [reltype |-> "styles", format |-> <<>>, decodable |-> FALSE]

Doc(ps, ts, rs) == [paras |-> ps, tables |-> ts, rels |-> rs]

StructDocs ==
    {Doc(<<P(T_Title, StyleNormal)>> \o body, <<>>, <<RelOther, ImagePNG>>) :
         body \in SeqsUpTo(Corpus, MaxBody)}
    \cup {Doc(ps, <<>>, <<RelOther, ImagePNG>>) : ps \in SeqsUpTo(Corpus, MaxFree)}

\* Author-block lines: one, two, three and more parts, with and without an
\* e-mail address
T_Smith == <<"A","."," ","S","m","i","t","h",","," ","E","d","i","t","o","r",","," ","D","e","p","t"," ","X",","," ","U","n","i","v"," ","Y">>

T_JaneDoe == <<"J","a","n","e"," ","D","o","e",","," ","P","I",","," ","M","I","T">>

AuthorLines ==
    { T_Smith,
      T_JaneDoe,
      <<"A",","," ","B">>,
      <<"A","n","n"," ","L","e","e">>,
      <<"A",";"," ","B"," ",";","C">>,
      <<"A",","," ","a","@","b",".","c",","," ","X">>,
      <<"J"," ","a",".","b","@","c","-","d",".","e","f",".","g">>,
      <<"x","@","y",".","z">>,
      <<","," ","B">>,
      <<"A",",",",","C",",">> }

MaxAuthors == 2

AuthorDocs ==
    {Doc(<<P(T_Title, StyleNormal)>> \o [k \in DOMAIN ls |-> P(ls[k], StyleNormal)]
             \o <<P(T_Abstract, StyleNormal)>>,
         <<>>, <<>>) : ls \in SeqsUpTo(AuthorLines, MaxAuthors)}

\* Tables: no row, a header only, a header and rows (one of them shorter)
Row_Header == <<<<"h"," "," ","1">>, <<"x">>>>

Row_A == <<<<"1">>, <<>>>>

Row_B == <<<<"2">>>>

TableCorpus == { <<>>, <<Row_Header>>, <<Row_Header, Row_A>>, <<Row_Header, Row_A, Row_B>> }

MaxTables == 2

TableParas ==
    { <<>>,
      <<P(T_Title, StyleNormal)>>,
      <<P(T_Title, StyleNormal), P(<<"S">>, StyleH1), P(<<"x">>, StyleNormal)>>,
      <<P(T_Title, StyleNormal), P(<<"S">>, StyleH1), P(<<"T">>, StyleH2),
        P(<<"R">>, StyleH1)>> }

TableDocs ==
    {Doc(ps, ts, <<>>) : ps \in TableParas, ts \in SeqsUpTo(TableCorpus, MaxTables)}

\* Image relationships: none, none that is an image, one that cannot be
\* opened, one without a format
ImageBad == [reltype |-> "image", format |-> <<>>, decodable |-> FALSE]

ImageNoFormat == [reltype |-> "image", format |-> <<>>, decodable |-> TRUE]

ImageJPEG == [reltype |-> "image", format |-> <<"J","P","E","G">>, decodable |-> TRUE]

RelChoices ==
    { <<>>, <<RelOther>>, <<ImageBad, ImagePNG>>, <<ImageNoFormat>>,
      <<RelOther, ImageJPEG, ImagePNG>> }

FigParas ==
    { <<P(T_Title, StyleNormal), P(T_FigCaption, StyleNormal)>>,
      <<P(T_Title, StyleNormal), P(<<"S">>, StyleH1), P(T_FigCaption, StyleNormal),
        P(T_FigCaption, StyleNormal)>>,
      <<P(T_Title, StyleNormal), P(<<"S">>, StyleH1), P(<<"T">>, StyleH2),
        P(T_FigCaption, StyleNormal), P(<<"x">>, StyleNormal)>> }

FigDocs == {Doc(ps, <<>>, rs) : ps \in FigParas, rs \in RelChoices}

\* The styled input of the scenario of section 8 of the specification
ScenarioDoc ==
    Doc(<< P(T_Title, StyleNormal),
           P(T_JaneDoe, StyleNormal),
           P(T_Abstract, StyleNormal),
           P(<<"T","h","i","s"," ","i","s"," ","t","h","e"," ","a","b","s","t","r","a","c","t",".">>, StyleNormal),
           P(T_Keywords, StyleNormal),
           P(<<"a","l","p","h","a",","," ","b","e","t","a">>, StyleNormal),
           P(<<"I","n","t","r","o">>, StyleH1),
           P(<<"H","e","l","l","o"," ","w","o","r","l","d",".">>, StyleNormal) >>,
        <<>>, <<>>)

Documents == StructDocs \cup AuthorDocs \cup TableDocs \cup FigDocs \cup {ScenarioDoc}

\* ------------------------------------------------------------------------
\* LatexConverter (converter.py)
\* ------------------------------------------------------------------------

\* str.replace(old, new) for a one-character old
RECURSIVE Replace(_, _, _)
Replace(t, old, new) ==
    IF t = <<>> THEN <<>>
    ELSE (IF Head(t) = old THEN new ELSE <<Head(t)>>) \o Replace(Tail(t), old, new)

L_textasciitilde == <<"\\","t","e","x","t","a","s","c","i","i","t","i","l","d","e">>

L_textasciicircum == <<"\\","t","e","x","t","a","s","c","i","i","c","i","r","c","u","m">>

L_textbackslash == <<"\\","t","e","x","t","b","a","c","k","s","l","a","s","h">>

L_bibitem == <<"\\","b","i","b","i","t","e","m">>

\* converter.py lines 93-105: the replacements, in the order of the code
clean_latex_text(text) ==
    LET t1  == Replace(text, "&", <<"\\", "&">>)
        t2  == Replace(t1, "%", <<"\\", "%">>)
        t3  == Replace(t2, "$", <<"\\", "$">>)
        t4  == Replace(t3, "#", <<"\\", "#">>)
        t5  == Replace(t4, "_", <<"\\", "_">>)
        t6  == Replace(t5, "{", <<"\\", "{">>)
        t7  == Replace(t6, "}", <<"\\", "}">>)
        t8  == Replace(t7, "~", L_textasciitilde)
        t9  == Replace(t8, "^", L_textasciicircum)
        t10 == Replace(t9, "\\", L_textbackslash)
    IN  t10

\* UniqueRefs with the bug of keying the duplicates on the id
UniqueRefs_KeyOnId(references) ==
    LET F[k \in 0..Len(references)] ==
            IF k = 0 THEN [seen |-> {}, unique_refs |-> <<>>]
            ELSE IF references[k].id \notin F[k-1].seen
                 THEN [seen        |-> F[k-1].seen \cup {references[k].id},
                       unique_refs |-> Append(F[k-1].unique_refs, references[k])]
                 ELSE F[k-1]
    IN  F[Len(references)].unique_refs

\* converter.py lines 145-151: the references whose citation was not seen before
UniqueRefs(references) ==
    LET F[k \in 0..Len(references)] ==
            IF k = 0 THEN [seen |-> {}, unique_refs |-> <<>>]
            ELSE IF references[k].citation \notin F[k-1].seen
                 THEN [seen        |-> F[k-1].seen \cup {references[k].citation},
                       unique_refs |-> Append(F[k-1].unique_refs, references[k])]
                 ELSE F[k-1]
    IN  F[Len(references)].unique_refs

\* converter.py line 152: f"\\bibitem{{ref{r['id']}}} {clean_latex_text(r['citation'])}"
BibItem(r) ==
    L_bibitem \o <<"{", "r", "e", "f">> \o r.id \o <<"}", " ">> \o clean_latex_text(r.citation)

\* converter.py lines 141-152
format_references(references) ==
    IF references = <<>> THEN <<>>
    ELSE LET unique_refs == UniqueRefs(references)
         IN  Join(<<"\n">>, [k \in DOMAIN unique_refs |-> BibItem(unique_refs[k])])

\* the call of clean_latex_text returns
CallCleanLatexText ==
    /\ conv_pc = "clean_latex_text"
    /\ conv_out' = clean_latex_text(conv_in)
    /\ conv_pc' = "text_returned"
    /\ UNCHANGED <<conv_in, docxVars, pdfVars>>

\* the call of format_references returns
CallFormatReferences ==
    /\ conv_pc = "format_references"
    /\ conv_out' = format_references(conv_in)
    /\ conv_pc' = "references_returned"
    /\ UNCHANGED <<conv_in, docxVars, pdfVars>>

MaxText == 2

MaxRefs == 3

TextAlphabet == {"&", "%", "$", "#", "_", "{", "}", "~", "^", "\\", "a", " "}

T_Foo2020 == <<"F","o","o",","," ","2","0","2","0">>

T_BandC == <<"B","&","C">>

RefCorpus == {[id |-> n, citation |-> c] : n \in {<<"1">>, <<"2">>}, c \in {T_Foo2020, T_BandC}}

ConvIdle == conv_pc = "idle" /\ conv_in = <<>> /\ conv_out = <<>>

\* ------------------------------------------------------------------------
\* extract_pdf
\* ------------------------------------------------------------------------

L_Email == <<"E","m","a","i","l",":">>

L_paractice == <<"p","a","r","a","c","t","i","c","e">>

L_practice == <<"p","r","a","c","t","i","c","e">>

L_image == <<"i","m","a","g","e">>

\* list.sort(key=...): the elements by increasing key, equal keys in the
\* order they had; keys[k] is the key of seq[k]
SortByKey(seq, keys) ==
    LET rank(k) == 1 + Cardinality({j \in DOMAIN seq :
                         \/ keys[j] < keys[k]
                         \/ keys[j] = keys[k] /\ j < k})
    IN  [r \in DOMAIN seq |-> seq[CHOOSE k \in DOMAIN seq : rank(k) = r]]

\* re.sub(r'paractice', 'practice', text, flags=re.I)
RECURSIVE FixPractice(_)
FixPractice(text) ==
    IF text = <<>> THEN <<>>
    ELSE IF StartsWith(Lower(text), L_paractice)
         THEN L_practice \o FixPractice(From(text, Len(L_paractice)))
         ELSE <<Head(text)>> \o FixPractice(Tail(text))

\* the length of the match of fig\s*\d*\s*: at the start of text (re.I),
\* 0 when there is none
CaptionPrefix(text) ==
    LET r1 == From(text, 3)
        a  == RunLen(r1, {" ", "\t", "\n"})
        r2 == From(r1, a)
        d  == RunLen(r2, Range(DigitT))
        r3 == From(r2, d)
        b  == RunLen(r3, {" ", "\t", "\n"})
        r4 == From(r3, b)
    IN  IF StartsWith(Lower(text), L_fig) /\ r4 # <<>> /\ r4[1] = ":"
        THEN 3 + a + d + b + 1 ELSE 0

\* re.match(r'fig\s*\d*\s*:', text, re.I)
MatchCaption(text) == CaptionPrefix(text) # 0

\* re.search(r'(\S+@\S+)', text): [start, end] (1-based, inclusive) of the
\* leftmost match, start = 0 when there is none.  A match is a whole run of
\* non-blank characters with an '@' that is neither its first nor its last.
PdfEmailSearch(text) ==
    LET runEnd(s) == s + RunLen(From(text, s - 1), {c \in Range(text) : ~IsSpace(c)}) - 1
        starts == {s \in DOMAIN text :
                      /\ ~IsSpace(text[s])
                      /\ \E j \in (s + 1)..(runEnd(s) - 1) : text[j] = "@"}
    IN  IF starts = {} THEN [start |-> 0, end |-> 0]
        ELSE LET s == CHOOSE a \in starts : \A b \in starts : a <= b
             IN  [start |-> s, end |-> runEnd(s)]

\* re.sub(r'^[••\-]\s*', '- ', text)
NormaliseBullet(text) ==
    IF text # <<>> /\ text[1] \in {Bullet, "-"}
    THEN <<"-", " ">> \o From(text, 1 + RunLen(Tail(text), {" ", "\t", "\n"}))
    ELSE text

\* lines 301-310
sanitize_filename(text) ==
    LET p     == CaptionPrefix(text)
        r1    == From(text, p + RunLen(From(text, p), {" ", "\t", "\n"}))
        group == SubSeq(r1, 1, RunLen(r1, Range(r1) \ {"\n"}))
        t1    == IF p # 0 /\ group # <<>> THEN group ELSE text
        t2    == Strip(Lower(t1))
        t3    == SelectSeq(t2, LAMBDA c : IsWord(c) \/ c \in {"-", "_", ".", " "})
        t4    == Replace(t3, " ", <<"_">>)
    IN  IF t4 # <<>> THEN t4 ELSE L_image

\* lines 321-326: the tables of the page, then its blocks sorted by their
\* top edge, all sorted by top edge
Combined(page) ==
    LET blocks == SortByKey(page.blocks, [k \in DOMAIN page.blocks |-> page.blocks[k].y0])
        items  == [k \in DOMAIN page.tables |->
                      [kind |-> "table", y |-> page.tables[k].top, table |-> page.tables[k]]]
                  \o [k \in DOMAIN blocks |->
                      [kind |-> "text", y |-> blocks[k].y0, block |-> blocks[k]]]
    IN  SortByKey(items, [k \in DOMAIN items |-> items[k].y])

Page == pdf_pages[page_num]

pdfRest == <<docxVars, convVars, pdf_pages>>

docxButFiles == <<paras, doc_tables, rels, pc, i, content, author_block, a_idx,
                  in_abstract, in_keywords, abstract_lines, keywords,
                  current_section, current_subsection, fig_count, table_count,
                  t_idx, ref_section, refs, ref_id, r_idx, consumed>>

\* lines 313-335: the next page is read
PdfPageStart ==
    /\ pdf_pc = "page" /\ page_num < Len(pdf_pages)
    /\ page_num' = page_num + 1
    /\ combined' = Combined(pdf_pages[page_num + 1])
    /\ image_used' = [k \in DOMAIN pdf_pages[page_num + 1].images |-> FALSE]
    /\ item_idx' = 0
    /\ pdf_pc' = "items"
    /\ UNCHANGED <<output, figures, tables, pdf_result>>
    /\ UNCHANGED pdfRest

\* lines 347-352: the Table of the rows a table item gave
PdfTable(table_data, count) ==
    [type   |-> "table",
     label  |-> L_Table \o ToStr(count + 1),
     header |-> table_data[1],
     rows   |-> Tail(table_data)]

\* lines 337-352: a table item.  Every table object is in combined once, so
\* it is never in tables_output already.
PdfTableItem ==
    /\ pdf_pc = "items" /\ item_idx < Len(combined)
    /\ combined[item_idx + 1].kind = "table"
    /\ LET table_data == combined[item_idx + 1].table.data
       IN  tables' = IF table_data # <<>>
                     THEN Append(tables, PdfTable(table_data, Len(tables)))
                     ELSE tables
    /\ item_idx' = item_idx + 1
    /\ UNCHANGED <<pdf_pc, page_num, combined, image_used, output, figures, pdf_result>>
    /\ UNCHANGED pdfRest

\* InsideTable with the bug of wanting the block strictly inside the box
InsideTable_Strict(page, block) ==
    \E k \in DOMAIN page.tables :
        block.y0 > page.tables[k].top /\ block.y1 < page.tables[k].bottom

\* lines 358-361
InsideTable(page, block) ==
    \E k \in DOMAIN page.tables :
        block.y0 >= page.tables[k].top /\ block.y1 <= page.tables[k].bottom

\* FirstUnused with the bug of taking the last image not used yet
FirstUnused_Last ==
    LET free == {k \in DOMAIN image_used : ~image_used[k]}
    IN  IF free = {} THEN 0 ELSE CHOOSE a \in free : \A b \in free : a >= b

\* position of the first image of the page not used yet, 0 when all are used
FirstUnused ==
    LET free == {k \in DOMAIN image_used : ~image_used[k]}
    IN  IF free = {} THEN 0 ELSE CHOOSE a \in free : \A b \in free : a <= b

PdfFigure(caption, path, count) ==
    [type |-> "figure", label |-> L_Fig \o ToStr(count + 1), caption |-> caption,
     content |-> path]

\* lines 353-397: a text item
PdfTextItem ==
    /\ pdf_pc = "items" /\ item_idx < Len(combined)
    /\ combined[item_idx + 1].kind = "text"
    /\ LET block == combined[item_idx + 1].block
           text  == Strip(block.text)
           email_match == PdfEmailSearch(text)
           caption == FixPractice(NormaliseBullet(text))
           idx   == FirstUnused
           filepath_img == media_dir \o <<"/">> \o sanitize_filename(caption)
                               \o <<".">> \o Page.images[idx].ext
       IN  IF block.block_type # 0 \/ InsideTable(Page, block) \/ text = <<>>
           THEN UNCHANGED <<output, figures, image_used, files>>
           ELSE IF email_match.start # 0 /\ ~StartsWith(text, L_Email)
           THEN LET before_email == Strip(SubSeq(text, 1, email_match.start - 1))
                    email        == SubSeq(text, email_match.start, email_match.end)
                    after_email  == Strip(From(text, email_match.end))
                IN  /\ output' = output
                                   \o (IF before_email # <<>> THEN <<before_email>> ELSE <<>>)
                                   \o <<email>>
                                   \o (IF after_email # <<>> THEN <<after_email>> ELSE <<>>)
                    /\ UNCHANGED <<figures, image_used, files>>
           ELSE IF MatchCaption(NormaliseBullet(text)) /\ idx # 0
           THEN /\ files' = files \cup {filepath_img}
                /\ image_used' = [image_used EXCEPT ![idx] = TRUE]
                /\ figures' = Append(figures, PdfFigure(caption, filepath_img, Len(figures)))
                /\ UNCHANGED output
           ELSE /\ output' = Append(output, IF MatchCaption(NormaliseBullet(text))
                                            THEN caption ELSE NormaliseBullet(text))
                /\ UNCHANGED <<figures, image_used, files>>
    /\ item_idx' = item_idx + 1
    /\ UNCHANGED <<pdf_pc, page_num, combined, tables, pdf_result>>
    /\ UNCHANGED <<docxButFiles, convVars, pdf_pages>>

\* lines 400-409: the Figures of the images of the page in the positions idx
\* (1-based), appended to figs
RECURSIVE UnlabeledFigures(_, _, _)
UnlabeledFigures(figs, page_no, idx) ==
    IF idx = <<>> THEN figs
    ELSE LET filename == L_image \o <<"_">> \o ToStr(page_no) \o <<"_">> \o ToStr(idx[1])
                             \o <<".">> \o pdf_pages[page_no].images[idx[1]].ext
         IN  UnlabeledFigures(
                 Append(figs, PdfFigure(filename, media_dir \o <<"/">> \o filename, Len(figs))),
                 page_no, Tail(idx))

\* lines 398-409: after the items of the page, the images not used
PdfLeftover ==
    /\ pdf_pc = "items" /\ item_idx = Len(combined)
    /\ LET unused == Sorted({k \in DOMAIN image_used : ~image_used[k]})
       IN  /\ figures' = UnlabeledFigures(figures, page_num, unused)
           /\ files' = files \cup {figures'[k].content : k \in (Len(figures) + 1)..Len(figures')}
    /\ pdf_pc' = "page"
    /\ UNCHANGED <<page_num, combined, item_idx, image_used, output, tables, pdf_result>>
    /\ UNCHANGED <<docxButFiles, convVars, pdf_pages>>

\* lines 411-420: runs of blank lines become one
CleanedOutput(lines) ==
    LET F[k \in 0..Len(lines)] ==
            IF k = 0 THEN <<>>
            ELSE IF Strip(lines[k]) = <<>>
                 THEN IF k > 1 /\ Strip(lines[k-1]) = <<>> THEN F[k-1]
                      ELSE Append(F[k-1], <<>>)
                 ELSE Append(F[k-1], lines[k])
    IN  F[Len(lines)]

\* lines 411-440: after the last page
PdfFinish ==
    /\ pdf_pc = "page" /\ page_num = Len(pdf_pages)
    /\ LET cleaned_output == CleanedOutput(output)
           rest == SelectSeq(From(cleaned_output, 1), LAMBDA line : line # <<>>)
       IN  pdf_result' =
               [metadata   |-> [title    |-> IF cleaned_output # <<>>
                                             THEN cleaned_output[1] ELSE <<>>,
                                authors  |-> <<>>,
                                abstract |-> <<>>,
                                keywords |-> <<>>,
                                figures  |-> figures],
                body       |-> [k \in DOMAIN rest |-> [type |-> "paragraph", text |-> rest[k]]],
                references |-> <<>>,
                tables     |-> tables]
    /\ pdf_pc' = "done"
    /\ UNCHANGED <<page_num, combined, item_idx, image_used, output, figures, tables>>
    /\ UNCHANGED pdfRest

\* the pages of the model
MaxBlocks == 2

MaxPages == 2

Block(y0, y1, text, block_type) ==
    [y0 |-> y0, y1 |-> y1, text |-> text, block_type |-> block_type]

T_Cell == <<"c","e","l","l">>

BlockCorpus ==
    { Block(0, 10, T_Title, 0),
      Block(20, 30, <<"F","i","g"," ","1",":"," ","A","\n">>, 0),
      Block(32, 38, <<"f","i","g"," ","2",":"," ","a">>, 0),
      Block(40, 60, T_Cell, 0),
      Block(35, 65, <<"x"," ","a","@","b",".","c"," ","y">>, 0),
      Block(70, 80, <<Bullet,"i","t","e","m">>, 0),
      Block(5, 8, <<>>, 1),
      Block(90, 95, <<" ","\n">>, 0) }

PdfTableFull ==
    [top |-> 40, bottom |-> 60, data |-> << <<T_Cell, <<"k">>>>, <<<<"1">>, <<"2">>>> >>]

PdfTableEmpty == [top |-> 40, bottom |-> 60, data |-> <<>>]

PdfImagePNG == [ext |-> <<"p","n","g">>]

PdfImageJPEG == [ext |-> <<"j","p","e","g">>]

PdfPage(blocks, tbls, images) == [blocks |-> blocks, tables |-> tbls, images |-> images]

RichPages ==
    {PdfPage(bs, ts, im) :
        bs \in SeqsUpTo(BlockCorpus, MaxBlocks),
        ts \in {<<>>, <<PdfTableFull>>, <<PdfTableEmpty>>},
        im \in {<<>>, <<PdfImagePNG>>, <<PdfImagePNG, PdfImageJPEG>>}}

SimplePages ==
    { PdfPage(<<>>, <<>>, <<>>),
      PdfPage(<<Block(0, 10, T_Title, 0)>>, <<>>, <<PdfImagePNG>>),
      PdfPage(<<Block(20, 30, <<"F","i","g"," ","1",":"," ","A","\n">>, 0)>>, <<>>,
              <<PdfImagePNG>>),
      PdfPage(<<Block(40, 60, T_Cell, 0), Block(0, 10, T_Title, 0)>>, <<PdfTableFull>>, <<>>),
      PdfPage(<<Block(32, 38, <<"f","i","g"," ","2",":"," ","a">>, 0)>>, <<PdfTableFull>>,
              <<PdfImagePNG, PdfImagePNG>>) }

PdfDocuments == {<<page>> : page \in RichPages} \cup SeqsUpTo(SimplePages, MaxPages)

\* lines 291-299
PdfStartOn(documents) ==
    /\ pdf_pages \in documents
    /\ pdf_pc = "page"
    /\ page_num = 0
    /\ combined = <<>>
    /\ item_idx = 0
    /\ image_used = <<>>
    /\ output = <<>>
    /\ figures = <<>>
    /\ tables = <<>>
    /\ pdf_result = None

PdfStart == PdfStartOn(PdfDocuments)

\* ------------------------------------------------------------------------
\* Specifications
\* ------------------------------------------------------------------------

\* extractors.py lines 10-26 and the initial values of the locals
DocxStartOn(documents) ==
    /\ \E d \in documents :
         /\ paras = d.paras
         /\ doc_tables = d.tables
         /\ rels = d.rels
         /\ consumed = [k \in 1..Len(d.paras) |-> {}]
    /\ pc = "title"
    /\ i = 0
    /\ content = EmptyContent
    /\ author_block = <<>>
    /\ a_idx = 0
    /\ in_abstract = FALSE
    /\ in_keywords = FALSE
    /\ abstract_lines = <<>>
    /\ keywords = <<>>
    /\ current_section = None
    /\ current_subsection = 0
    /\ fig_count = 1
    /\ table_count = 1
    /\ t_idx = 0
    /\ ref_section = NoIndex
    /\ refs = <<>>
    /\ ref_id = 1
    /\ r_idx = 0
    /\ files = {}

DocxStart == DocxStartOn(Documents)

DocxIdle ==
    /\ paras = <<>> /\ doc_tables = <<>> /\ rels = <<>> /\ consumed = <<>>
    /\ pc = "idle"
    /\ i = 0
    /\ content = EmptyContent
    /\ author_block = <<>>
    /\ a_idx = 0
    /\ in_abstract = FALSE
    /\ in_keywords = FALSE
    /\ abstract_lines = <<>>
    /\ keywords = <<>>
    /\ current_section = None
    /\ current_subsection = 0
    /\ fig_count = 1
    /\ table_count = 1
    /\ t_idx = 0
    /\ ref_section = NoIndex
    /\ refs = <<>>
    /\ ref_id = 1
    /\ r_idx = 0
    /\ files = {}

PdfIdle ==
    /\ pdf_pages = <<>>
    /\ pdf_pc = "idle"
    /\ page_num = 0
    /\ combined = <<>>
    /\ item_idx = 0
    /\ image_used = <<>>
    /\ output = <<>>
    /\ figures = <<>>
    /\ tables = <<>>
    /\ pdf_result = None

\* a run of extract_docx on one of the documents
Init == DocxStart /\ ConvIdle /\ PdfIdle

Next ==
    \/ TitleStep
    \/ AuthorScan
    \/ AuthorParse
    \/ AbstractStep
    \/ BodyBlank
    \/ BodyHeading
    \/ BodyFigure
    \/ BodyText
    \/ BodyExit
    \/ TableStep
    \/ RefFind
    \/ RefStep

Spec == Init /\ [][Next]_vars

\* The documents of the runs followed to their end: a title, an author line
\* or none, an "abstract" line or a heading, and up to MaxLive paragraphs;
\* the shorter documents; the documents of blank paragraphs only; a
\* document with every part
MaxLive == 1

LiveCorpus ==
    { P(<<" ">>, StyleNormal),
      P(<<"x">>, StyleNormal),
      P(T_Keywords, StyleNormal),
      P(T_References, StyleNormal),
      P(T_FigCaption, StyleNormal),
      P(<<"S">>, StyleH1) }

LiveAuthors == { <<>>, <<P(<<"x">>, StyleNormal)>> }

LiveOpeners == { <<P(T_Abstract, StyleNormal)>>, <<P(<<"S">>, StyleH1)>> }

LiveTables == { <<>>, <<<<Row_Header, Row_A>>>> }

LiveFull ==
    Doc(<< P(T_Title, StyleNormal), P(<<"x">>, StyleNormal),
           P(T_Abstract, StyleNormal), P(<<"x">>, StyleNormal),
           P(T_Keywords, StyleNormal), P(<<"x">>, StyleNormal),
           P(<<"S">>, StyleH1), P(<<"T">>, StyleH2), P(T_FigCaption, StyleNormal),
           P(T_References, StyleNormal), P(<<"x">>, StyleNormal) >>,
        <<<<Row_Header, Row_A>>>>, <<ImagePNG>>)

LiveDocs ==
    {Doc(<<P(T_Title, StyleNormal)>> \o authors \o opener \o rest, <<>>, <<ImagePNG>>) :
         authors \in LiveAuthors, opener \in LiveOpeners,
         rest \in SeqsUpTo(LiveCorpus, MaxLive)}
    \cup {Doc(<<P(T_Title, StyleNormal)>> \o authors, ts, <<>>) :
              authors \in LiveAuthors, ts \in LiveTables}
    \cup {Doc(ps, ts, <<>>) : ps \in SeqsUpTo({P(<<" ">>, StyleNormal)}, MaxLive + 1),
                              ts \in LiveTables}
    \cup {LiveFull}

InitLive == DocxStartOn(LiveDocs) /\ ConvIdle /\ PdfIdle

\* extract_docx is one sequential call: a step that can be taken is taken
SpecLive == InitLive /\ [][Next]_vars /\ WF_vars(Next)

\* a call of one of the two helpers of LatexConverter
InitConv ==
    /\ \/ conv_pc = "clean_latex_text" /\ conv_in \in SeqsUpTo(TextAlphabet, MaxText)
       \/ conv_pc = "format_references" /\ conv_in \in SeqsUpTo(RefCorpus, MaxRefs)
    /\ conv_out = <<>>
    /\ DocxIdle
    /\ PdfIdle

NextConv == CallCleanLatexText \/ CallFormatReferences

SpecConv == InitConv /\ [][NextConv]_vars

\* a run of extract_pdf on one of the documents
InitPdf == PdfStart /\ DocxIdle /\ ConvIdle

NextPdf ==
    \/ PdfPageStart
    \/ PdfTableItem
    \/ PdfTextItem
    \/ PdfLeftover
    \/ PdfFinish

SpecPdf == InitPdf /\ [][NextPdf]_vars

\* Two runs on the same directory, their steps interleaved: extract_docx
\* on a document with every part or on one with two figure captions and a
\* blank paragraph, and extract_pdf on one to MaxBoth + 1 pages, one of
\* which has a caption that gives the file name figure_1.png, the name
\* extract_docx gives its first figure
MaxBoth == 1

BothDocs ==
    { LiveFull,
      Doc(<< P(T_Title, StyleNormal), P(<<"S">>, StyleH1),
             P(T_FigCaption, StyleNormal), P(<<" ">>, StyleNormal),
             P(T_FigCaption, StyleNormal) >>,
          <<>>, <<RelOther, ImagePNG>>) }

BothPages ==
    { PdfPage(<<Block(20, 30, <<"F","i","g"," ","1",":"," ">> \o L_figure_ \o <<"1">>, 0)>>,
              <<>>, <<PdfImagePNG>>),
      PdfPage(<<Block(0, 10, T_Title, 0)>>, <<PdfTableFull>>, <<PdfImagePNG>>) }

BothPdfs ==
    {pages \in SeqsUpTo(BothPages, MaxBoth + 1) : pages # <<>>}

InitBoth == DocxStartOn(BothDocs) /\ PdfStartOn(BothPdfs) /\ ConvIdle

NextBoth == Next \/ NextPdf

SpecBoth == InitBoth /\ [][NextBoth]_vars

TypeOK == pc \in {"idle", "title", "authors", "parse_authors", "abstract", "body",
                  "tables", "find_references", "references", "done"}

\* ------------------------------------------------------------------------
\* Vocabulary of the properties of extract_docx
\* ------------------------------------------------------------------------

Indices == 0..(Len(paras) - 1)

CleanTexts(idx) == [k \in DOMAIN idx |-> clean_text(Para(idx[k]).text)]

Headings(sections) == [k \in DOMAIN sections |-> sections[k].heading]

\* paragraphs the body pass has read as headings of a level
HeadingsRead(level) ==
    {k \in Indices : "heading" \in consumed[k + 1] /\ get_heading_level(Para(k)) = level}

\* paragraphs that make the body pass open a Section when none is open
Openers ==
    {k \in Indices : \/ k \in HeadingsRead(2)
                     \/ consumed[k + 1] \cap {"list", "paragraph"} # {}}

FirstH1 ==
    IF HeadingsRead(1) = {} THEN Len(paras)
    ELSE CHOOSE a \in HeadingsRead(1) : \A b \in HeadingsRead(1) : a <= b

\* the heading of the Section synthesized before the first level-1 heading
SynthesizedHeading ==
    LET early == {k \in Openers : k < FirstH1}
    IN  IF early # {}
        THEN IF (CHOOSE a \in early : \A b \in early : a <= b) \in HeadingsRead(2)
             THEN <<L_UntitledSection>> ELSE <<L_Introduction>>
        ELSE IF HeadingsRead(1) = {} /\ \E k \in DOMAIN doc_tables : doc_tables[k] # <<>>
        THEN <<L_Tables>>
        ELSE <<>>

\* the sections built so far: those in body and the open one
AllSections ==
    IF pc = "body" THEN Flush(content.body, current_section) ELSE content.body

\* ------------------------------------------------------------------------
\* Properties
\* ------------------------------------------------------------------------

\* C1 (as stated): when extract_docx has returned, body has one Section per
\* level-1 heading paragraph of the document, with the heading texts in
\* the same order.
C1_SectionsEqualLevel1Headings ==
    pc = "done" =>
        Headings(content.body) =
            CleanTexts(Sorted({k \in Indices : /\ is_heading(Para(k))
                                               /\ get_heading_level(Para(k)) = 1
                                               /\ clean_text(Para(k).text) # <<>>}))

\* C1 (amended): when extract_docx has returned, body is at most one
\* synthesized Section ("Introduction", "Untitled Section" or "Tables",
\* made when a paragraph, a level-2 heading or a table arrived while no
\* Section was open) followed by one Section per level-1 heading the body
\* pass read, with the heading texts in the same order.
C1_SectionsFollowBodyHeadings ==
    pc = "done" =>
        Headings(content.body) =
            SynthesizedHeading \o CleanTexts(Sorted(HeadingsRead(1)))

\* C1 witness: a run that ended with a synthesized Section followed by the
\* Sections of two level-1 headings
C1_Witness ==
    /\ pc = "done"
    /\ Cardinality(HeadingsRead(1)) = 2
    /\ Len(content.body) = 3
    /\ content.body[1].heading = L_UntitledSection

\* the index in AllSections of the Section open when paragraph k was read
SectionOf(k) ==
    Cardinality({j \in HeadingsRead(1) : j <= k})
    + (IF \E j \in Openers : j < FirstH1 /\ j <= k THEN 1 ELSE 0)

SubsectionHeadings(section) ==
    Headings(SelectSeq(section.content, LAMBDA node : node.type = "subsection"))

\* C2: at every point of the body pass and after it, the Subsection nodes
\* of each Section are exactly the level-2 headings read while that Section
\* was open, one node per heading and in reading order; no Subsection is
\* inside another node.
C2_SubsectionUnderOpenSection ==
    pc \in {"body", "tables", "find_references", "references", "done"} =>
        /\ \A k \in HeadingsRead(2) : SectionOf(k) \in DOMAIN AllSections
        /\ \A n \in DOMAIN AllSections :
              /\ SubsectionHeadings(AllSections[n]) =
                     CleanTexts(Sorted({k \in HeadingsRead(2) : SectionOf(k) = n}))
              /\ \A c \in DOMAIN AllSections[n].content :
                     AllSections[n].content[c].type = "subsection" =>
                         \A d \in DOMAIN AllSections[n].content[c].content :
                             AllSections[n].content[c].content[d].type # "subsection"

\* C2 witness: a level-2 heading read with no Section open and another read
\* under the Section of a later level-1 heading
C2_Witness ==
    /\ pc = "done"
    /\ Len(content.body) = 2
    /\ content.body[1].heading = L_UntitledSection
    /\ Len(SubsectionHeadings(content.body[1])) = 1
    /\ Len(SubsectionHeadings(content.body[2])) = 1

IsNumber(t) == t # <<>> /\ \A k \in DOMAIN t : IsDigit(t[k])

\* C4: the references collected so far and the references returned carry
\* the ids "1", "2", ..., "n" in encounter order: the k-th one has the
\* decimal numeral of k, without a leading zero, whatever its citation says.
C4_ReferenceIdsDense ==
    /\ \A k \in DOMAIN refs :
          IsNumber(refs[k].id) /\ refs[k].id[1] # "0" /\ ToInt(refs[k].id) = k
    /\ \A k \in DOMAIN content.references :
          /\ IsNumber(content.references[k].id)
          /\ content.references[k].id[1] # "0"
          /\ ToInt(content.references[k].id) = k
    /\ pc = "done" /\ ref_section > 0 => content.references = refs

\* C4 witness: two references returned, the first with a citation that
\* carries a number of its own
C4_Witness ==
    /\ pc = "done"
    /\ Len(content.references) = 2
    /\ content.references[1].citation = clean_text(T_Spaced)
    /\ content.references[2].id = <<"2">>

\* the tables the table pass has gone through
TablesSeen ==
    IF pc = "tables" THEN SubSeq(doc_tables, 1, t_idx)
    ELSE IF pc \in {"find_references", "references", "done"} THEN doc_tables
    ELSE <<>>

\* the Table nodes that are direct children of the Sections of body, in order
RECURSIVE BodyTables(_)
BodyTables(sections) ==
    IF sections = <<>> THEN <<>>
    ELSE SelectSeq(sections[1].content, LAMBDA node : node.type = "table")
         \o BodyTables(Tail(sections))

\* C6: the tables emitted are those of the tables with at least one row, in
\* order: the k-th has the label number k, the cells of row 0 as header and
\* the remaining rows, in order, as rows (row count - 1 of them); each is in
\* `tables` and in `body`; a table without rows adds nothing and takes no
\* label number.  Cell texts are whitespace-normalised.
C6_TableHeaderAndRows ==
    LET withRows == SelectSeq(TablesSeen, LAMBDA t : t # <<>>)
    IN  /\ Len(content.tables) = Len(withRows)
        /\ Len(BodyTables(content.body)) = Len(withRows)
        /\ table_count = Len(withRows) + 1
        /\ \A k \in DOMAIN content.tables :
              LET out == content.tables[k]
                  src == withRows[k]
              IN  /\ out.label = L_Table \o ToStr(k)
                  /\ out.header = CleanEach(src[1])
                  /\ Len(out.rows) = Len(src) - 1
                  /\ \A r \in DOMAIN out.rows : out.rows[r] = CleanEach(src[r + 1])

\* C6 witness: a table without rows followed by a table of three rows, which
\* is emitted as Table1 with two rows
C6_Witness ==
    /\ pc = "done"
    /\ Len(doc_tables) = 2
    /\ doc_tables[1] = <<>>
    /\ Len(doc_tables[2]) = 3
    /\ Len(content.tables) = 1
    /\ Len(content.tables[1].rows) = 2
    /\ content.tables[1].label = <<"T","a","b","l","e","1">>

ScenarioRun == pc = "done" /\ paras = ScenarioDoc.paras

ScenarioRest ==
    /\ content.metadata.title = <<"T","i","t","l","e">>
    /\ Len(content.metadata.authors) = 1
    /\ content.metadata.authors[1].name = <<"J","a","n","e"," ","D","o","e">>
    /\ content.metadata.abstract =
           <<"T","h","i","s"," ","i","s"," ","t","h","e"," ","a","b","s","t","r","a","c","t",".">>
    /\ content.metadata.keywords = << <<"a","l","p","h","a">>, <<"b","e","t","a">> >>
    /\ content.body =
           << [type |-> "section", heading |-> <<"I","n","t","r","o">>,
               content |-> << [type |-> "paragraph",
                               text |-> <<"H","e","l","l","o"," ","w","o","r","l","d",".">>] >>] >>

\* C7 (as stated): for the scenario input extract_docx returns the title
\* "Title", one author "Jane Doe" with role "" and affiliation "PI", the
\* abstract, the keywords alpha and beta, and one Section "Intro" with one
\* Paragraph "Hello world.".
C7_ScenarioAsStated ==
    ScenarioRun =>
        /\ ScenarioRest
        /\ content.metadata.authors[1].role = <<>>
        /\ content.metadata.authors[1].affiliation = <<"P","I">>

\* C7 (amended): for the scenario input extract_docx returns the title
\* "Title", one author "Jane Doe" with role "PI" and affiliation "MIT" (the
\* line has three parts), the abstract, the keywords alpha and beta, and
\* one Section "Intro" with one Paragraph "Hello world.".
C7_ScenarioThreeParts ==
    ScenarioRun =>
        /\ ScenarioRest
        /\ content.metadata.authors[1].role = <<"P","I">>
        /\ content.metadata.authors[1].affiliation = <<"M","I","T">>

\* C7 witness: the run on the scenario input has returned
C7_Witness == ScenarioRun /\ Len(content.body) = 1 /\ Len(content.metadata.authors) = 1

\* the parts of an author-block line, after the e-mail address is removed
AuthorParts(line) == StripEach(SplitOn(Strip(EmailRemove(line)), {",", ";"}))

\* C8: the authors are those of the author-block lines, one per line and in
\* line order: with three or more parts, name, role and the rest joined by
\* ", "; with two parts, name and affiliation and no role; with one part,
\* the line without its e-mail address as name.
C8_AuthorFields ==
    /\ author_block = CleanTexts(Sorted({k \in Indices : "author" \in consumed[k + 1]}))
    /\ Len(content.metadata.authors) =
           (IF pc \in {"title", "authors"} THEN 0
            ELSE IF pc = "parse_authors" THEN a_idx ELSE Len(author_block))
    /\ \A k \in DOMAIN content.metadata.authors :
          LET a     == content.metadata.authors[k]
              parts == AuthorParts(author_block[k])
          IN  /\ Len(parts) >= 3 =>
                    /\ a.name = parts[1]
                    /\ a.role = parts[2]
                    /\ a.affiliation = Join(<<",", " ">>, SubSeq(parts, 3, Len(parts)))
              /\ Len(parts) = 2 =>
                    a.name = parts[1] /\ a.role = <<>> /\ a.affiliation = parts[2]
              /\ Len(parts) = 1 =>
                    /\ a.name = Strip(EmailRemove(author_block[k]))
                    /\ a.role = <<>>
                    /\ a.affiliation = <<>>
              /\ author_block[k] = T_Smith =>
                    /\ a.name = <<"A","."," ","S","m","i","t","h">>
                    /\ a.role = <<"E","d","i","t","o","r">>
                    /\ a.affiliation = <<"D","e","p","t"," ","X",","," ","U","n","i","v"," ","Y">>

\* C8 witness: a line of four parts and a line of two parts have been parsed
C8_Witness ==
    /\ pc = "done"
    /\ Len(content.metadata.authors) = 2
    /\ author_block[1] = T_Smith
    /\ Len(AuthorParts(author_block[2])) = 2
    /\ content.metadata.authors[2].affiliation # <<>>

\* the content nodes of the Sections of body and of their Subsections
BodyNodes(sections) ==
    LET top == UNION {Range(sections[n].content) : n \in DOMAIN sections}
    IN  top \cup UNION {Range(node.content) : node \in {x \in top : x.type = "subsection"}}

\* the image paths of the Figure nodes of body
FigurePaths(sections) ==
    {node.content : node \in {x \in BodyNodes(sections) : x.type = "figure"}}

\* C10: when extract_docx has returned, the image paths of the records of
\* metadata.figures are the image paths of the Figure nodes of body: every
\* record has its node and every node its record.
C10_FigureRecordsMatchNodes ==
    pc = "done" =>
        {content.metadata.figures[k].path : k \in DOMAIN content.metadata.figures}
            = FigurePaths(SelectSeq(content.body, LAMBDA element : element.type = "section"))

\* ------------------------------------------------------------------------
\* Properties of LatexConverter
\* ------------------------------------------------------------------------

\* the escaped form of a character
EscapedForm(c) ==
    CASE c \in {"&", "%", "$", "#", "_", "{", "}"} -> <<"\\", c>>
      [] c = "~" -> L_textasciitilde
      [] c = "^" -> L_textasciicircum
      [] c = "\\" -> L_textbackslash
      [] OTHER -> <<c>>

RECURSIVE EscapeEach(_)
EscapeEach(t) ==
    IF t = <<>> THEN <<>> ELSE EscapedForm(Head(t)) \o EscapeEach(Tail(t))

\* C3: what clean_latex_text returns is its argument with every one of
\* & % $ # _ { } ~ ^ \ replaced, where it stands, by its escaped form, and
\* with nothing else changed.
C3_EveryCharacterEscaped ==
    conv_pc = "text_returned" => conv_out = EscapeEach(conv_in)

\* the number of places of t where the text p begins
CountOccurrences(t, p) ==
    Cardinality({k \in 1..(Len(t) - Len(p) + 1) : SubSeq(t, k, k + Len(p) - 1) = p})

\* the positions of the references whose citation no earlier reference has
FirstOccurrences(references) ==
    Sorted({k \in DOMAIN references :
               \A j \in 1..(k - 1) : references[j].citation # references[k].citation})

\* C5: the bibliography format_references returns has one \bibitem entry
\* per distinct citation text, that of the first reference with that
\* citation and with its id, in the order of first occurrence.
C5_OneEntryPerCitation ==
    conv_pc = "references_returned" =>
        LET firsts == FirstOccurrences(conv_in)
        IN  /\ conv_out = Join(<<"\n">>, [k \in DOMAIN firsts |-> BibItem(conv_in[firsts[k]])])
            /\ CountOccurrences(conv_out, L_bibitem)
                   = Cardinality({conv_in[k].citation : k \in DOMAIN conv_in})

\* C5 witness: two references with the citation "Foo, 2020" and the ids 1
\* and 2 gave one entry
C5_Witness ==
    /\ conv_pc = "references_returned"
    /\ conv_in = << [id |-> <<"1">>, citation |-> T_Foo2020],
                    [id |-> <<"2">>, citation |-> T_Foo2020] >>
    /\ CountOccurrences(conv_out, L_bibitem) = 1

\* ------------------------------------------------------------------------
\* Properties of both extractors
\* ------------------------------------------------------------------------

\* the Table nodes inside the Sections of a body
TableNodes(body) ==
    Range(BodyTables(SelectSeq(body, LAMBDA element : element.type = "section")))

\* C9: in what extract_docx and extract_pdf return, the tables of `tables`
\* are the Table nodes inside the Sections of `body`.
C9_TablesAlsoInBody ==
    /\ pc = "done" => Range(content.tables) = TableNodes(content.body)
    /\ pdf_pc = "done" => Range(pdf_result.tables) = TableNodes(pdf_result.body)

\* the sequence has no element twice
Distinct(seq) == \A a, b \in DOMAIN seq : a # b => seq[a] # seq[b]

\* C11: in what extract_docx and extract_pdf return, the image file paths of
\* the figures are pairwise distinct: no two figures of one run were written
\* to the same file.
C11_FigurePathsDistinct ==
    /\ pc = "done" =>
           Distinct([k \in DOMAIN content.metadata.figures |->
                        content.metadata.figures[k].path])
    /\ pdf_pc = "done" =>
           Distinct([k \in DOMAIN pdf_result.metadata.figures |->
                        pdf_result.metadata.figures[k].content])

\* converter.py lines 70-77: the content items format_body renders, those of
\* the top-level elements of type "section"
FormatBodyItems(body_sections) ==
    LET sections == SelectSeq(body_sections, LAMBDA section : section.type = "section")
        F[k \in 0..Len(sections)] ==
            IF k = 0 THEN <<>> ELSE F[k - 1] \o sections[k].content
    IN  F[Len(sections)]

\* the paragraphs among the elements of a sequence of nodes
ParagraphsOf(nodes) == SelectSeq(nodes, LAMBDA node : node.type = "paragraph")

\* C12: in what extract_docx and extract_pdf return, every element of body
\* is a Section, so no Paragraph stands at the top level of body, where
\* format_body would not render it.
C12_BodyElementsAreSections ==
    /\ pc = "done" =>
           /\ \A n \in DOMAIN content.body : content.body[n].type = "section"
           /\ ParagraphsOf(content.body) = <<>>
    /\ pdf_pc = "done" =>
           /\ \A n \in DOMAIN pdf_result.body : pdf_result.body[n].type = "section"
           /\ Len(ParagraphsOf(FormatBodyItems(pdf_result.body)))
                  = Len(ParagraphsOf(pdf_result.body))

\* ------------------------------------------------------------------------
\* Properties of the metadata passes of extract_docx
\* ------------------------------------------------------------------------

\* the least element of a non-empty set of integers
MinOf(S) == CHOOSE a \in S : \A b \in S : a <= b

NonBlank == {k \in Indices : clean_text(Para(k).text) # <<>>}

\* the non-blank paragraphs after the title
AfterTitle == {k \in NonBlank : k > MinOf(NonBlank)}

\* no author block: after the title comes nothing, an "abstract" line or a
\* heading
NoAuthorBlock ==
    \/ NonBlank = {}
    \/ AfterTitle = {}
    \/ LET a == MinOf(AfterTitle)
       IN  MatchAbstract(clean_text(Para(a).text)) \/ is_heading(Para(a))

NoAbstractLine == \A k \in Indices : ~MatchAbstract(clean_text(Para(k).text))

NoKeywordsLine == \A k \in Indices : ~MatchKeywords(clean_text(Para(k).text))

NoReferencesLine == \A k \in Indices : ~MatchReferences(clean_text(Para(k).text))

\* every field the document does not have is empty in the returned model
MissingFieldsEmpty ==
    /\ NonBlank = {} => /\ content.metadata = EmptyContent.metadata
                        /\ content.references = <<>>
                        /\ doc_tables = <<>> => content = EmptyContent
    /\ NoAuthorBlock => content.metadata.authors = <<>>
    /\ NoAbstractLine => content.metadata.abstract = <<>>
    /\ NoAbstractLine \/ NoKeywordsLine => content.metadata.keywords = <<>>
    /\ NoReferencesLine => content.references = <<>>
    /\ doc_tables = <<>> => content.tables = <<>>
    /\ (\A k \in Indices : ~FigMatch(clean_text(Para(k).text)).ok)
           => content.metadata.figures = <<>>

\* C14: every run of extract_docx, whatever the paragraph sequence, comes to
\* its return, and the returned model has the empty string or the empty
\* sequence in every field the document does not have.
C14_ReturnsWithEmptyFields == <>[](pc = "done" /\ MissingFieldsEmpty)

\* C14 witness: a document of two blank paragraphs was read to its end and
\* gave the empty model
C14_Witness ==
    /\ pc = "done"
    /\ Len(paras) = 2 /\ NonBlank = {}
    /\ i = 2
    /\ content = EmptyContent

\* the abstract/keywords loop has been in IN_KEYWORDS: it consumed a
\* keywords line
KeywordsEntered == \E k \in DOMAIN consumed : "keywords_head" \in consumed[k]

\* C15: the abstract/keywords loop of extract_docx only moves forward: it is
\* never in IN_ABSTRACT and IN_KEYWORDS at once, it enters IN_KEYWORDS only
\* from IN_ABSTRACT, and once it has been in IN_KEYWORDS it does not enter
\* IN_ABSTRACT again.
C15_SubMachineOnlyForward ==
    /\ [](~(in_abstract /\ in_keywords))
    /\ [][/\ (in_keywords' /\ ~in_keywords) => in_abstract
          /\ (KeywordsEntered /\ in_abstract') => in_abstract]_vars

\* the abstract/keywords loop has been in IN_ABSTRACT: it consumed an
\* "abstract" line
AbstractEntered == \E k \in DOMAIN consumed : "abstract_head" \in consumed[k]

\* the paragraphs consumed while IN_ABSTRACT, in order
AbstractParas == Sorted({k \in Indices : "abstract" \in consumed[k + 1]})

\* C16: when extract_docx has returned from a run that entered IN_ABSTRACT,
\* metadata.abstract is the single-space join of the paragraphs consumed
\* while IN_ABSTRACT, however IN_ABSTRACT was left, and no heading was
\* consumed as abstract text: a heading the metadata passes did not take
\* as a line of theirs was handled by the body pass.
C16_AbstractIsJoinOfConsumed ==
    pc = "done" =>
        /\ AbstractEntered =>
               content.metadata.abstract = Join(<<" ">>, CleanTexts(AbstractParas))
        /\ \A k \in NonBlank :
               (/\ is_heading(Para(k))
                /\ consumed[k + 1] \cap {"title", "abstract_head", "keywords_head"} = {})
                   => "heading" \in consumed[k + 1] /\ "abstract" \notin consumed[k + 1]

\* the paragraphs whose text matches "references?"
ReferenceLines == {k \in Indices : MatchReferences(clean_text(Para(k).text))}

\* the non-blank, non-heading paragraphs after the paragraph j, up to the
\* next heading paragraph or the end of the input, in order
ParasAfter(j) ==
    LET stops == {k \in Indices : k > j /\ is_heading(Para(k))}
        last  == IF stops = {} THEN Len(paras) - 1 ELSE MinOf(stops) - 1
    IN  Sorted({k \in NonBlank : j < k /\ k <= last})

\* C17: when extract_docx has returned, the citations of `references` are
\* the paragraphs after the first "references" line, wherever that line
\* stands, up to the next heading or the end of the input; without such a
\* line `references` is empty.
C17_ReferencesFollowFirstMatch ==
    pc = "done" =>
        [n \in DOMAIN content.references |-> content.references[n].citation]
            = IF ReferenceLines = {} THEN <<>>
              ELSE CleanTexts(ParasAfter(MinOf(ReferenceLines)))

\* ------------------------------------------------------------------------
\* Properties of the figures of extract_docx
\* ------------------------------------------------------------------------

\* the image relationships of the document, in relationship order
ImageRels == SelectSeq(rels, LAMBDA rel : rel.reltype = "image")

\* the paragraphs the body pass read as figure captions
CaptionsRead == {k \in Indices : "figure" \in consumed[k + 1]}

\* the record of metadata.figures in position k was made from the image
\* relationship in position r of ImageRels
MadeFrom(k, r) ==
    /\ ImageRels[r].decodable
    /\ content.metadata.figures[k].filename = save_image(ImageRels[r], k, <<>>).filename

\* C18: the figure captions of extract_docx take the image relationships in
\* relationship order, each one at most once: the figures were made from
\* image relationships of increasing position, and from the first ones
\* when every caption read gave a figure.
C18_CaptionsConsumeImagesInOrder ==
    LET figs == content.metadata.figures
    IN  /\ \E f \in [DOMAIN figs -> DOMAIN ImageRels] :
               /\ \A a, b \in DOMAIN figs : a < b => f[a] < f[b]
               /\ \A k \in DOMAIN figs : MadeFrom(k, f[k])
        /\ Cardinality(CaptionsRead) = Len(figs) =>
               \A k \in DOMAIN figs : k \in DOMAIN ImageRels /\ MadeFrom(k, k)

\* the paragraph the body pass is at is a figure caption
CaptionAt ==
    /\ pc = "body" /\ i < Len(paras)
    /\ ~is_heading(Para(i))
    /\ FigMatch(clean_text(Para(i).text)).ok

\* C20: a figure caption of extract_docx whose image was not saved (no file
\* was written) leaves the model, the figure counter and the section and
\* subsection cursors as they were, and the pass goes on to the next
\* paragraph; so the figures that were saved are numbered fig_1..fig_k and
\* figure_1..figure_k without a gap.
C20_FailedSaveIsAbsorbed ==
    /\ [](/\ fig_count = Len(content.metadata.figures) + 1
          /\ \A k \in DOMAIN content.metadata.figures :
                 /\ content.metadata.figures[k].id = L_fig_ \o ToStr(k)
                 /\ StartsWith(content.metadata.figures[k].filename,
                               L_figure_ \o ToStr(k) \o <<".">>))
    /\ [][(CaptionAt /\ files' = files) =>
               /\ UNCHANGED <<content, fig_count, current_section, current_subsection, pc>>
               /\ i' = i + 1]_vars

\* C20 witness: of two figure captions read in a section, one gave the
\* figure fig_1 and the other, whose image was not saved, gave nothing
C20_Witness ==
    /\ pc = "done"
    /\ Cardinality(CaptionsRead) = 2
    /\ Cardinality(files) = 1
    /\ Len(content.metadata.figures) = 1
    /\ content.metadata.figures[1].id = L_fig_ \o <<"1">>
    /\ fig_count = Len(content.metadata.figures) + 1
    /\ Len(content.body) = 1 /\ Len(content.body[1].content) = 1

\* ------------------------------------------------------------------------
\* Properties of the content tree of extract_docx
\* ------------------------------------------------------------------------

\* the types of the nodes of a content sequence
NodeTypes(nodes) == {nodes[k].type : k \in DOMAIN nodes}

\* positions of the Subsection nodes of a content sequence
SubsectionsAt(nodes) == {k \in DOMAIN nodes : nodes[k].type = "subsection"}

\* a Section whose children are leaves or Subsections of leaves
DepthTwo(section) ==
    /\ section.type = "section"
    /\ NodeTypes(section.content) \subseteq
           {"subsection", "paragraph", "list", "figure", "table"}
    /\ \A c \in SubsectionsAt(section.content) :
           NodeTypes(section.content[c].content) \subseteq {"paragraph", "list", "figure"}

\* the paragraph the body pass is at is a heading of level 3 or more
DeepHeadingAt ==
    /\ pc = "body" /\ i < Len(paras)
    /\ clean_text(Para(i).text) # <<>>
    /\ is_heading(Para(i))
    /\ get_heading_level(Para(i)) >= 3

\* C21: the content tree of extract_docx has depth two at every point:
\* every element of body, and the open Section, is a Section whose children
\* are leaves or Subsections, a Subsection holds leaves only, and the
\* subsection cursor, when set, is the last Subsection of the open Section;
\* a heading of level 3 or more changes neither the tree nor the cursors.
C21_TreeDepthTwo ==
    /\ [](/\ \A n \in DOMAIN content.body : DepthTwo(content.body[n])
          /\ current_section # None => DepthTwo(current_section)
          /\ current_section = None => current_subsection = 0
          /\ current_subsection # 0 =>
                /\ current_subsection \in SubsectionsAt(current_section.content)
                /\ \A c \in SubsectionsAt(current_section.content) :
                       c <= current_subsection)
    /\ [][DeepHeadingAt =>
               /\ UNCHANGED <<content, current_section, current_subsection>>
               /\ i' = i + 1]_vars

\* C21 witness: the body pass has read a heading of level 3 while a
\* Subsection was open, and that Subsection holds a leaf
C21_Witness ==
    /\ pc = "body"
    /\ HeadingsRead(3) # {}
    /\ current_section # None
    /\ current_subsection # 0
    /\ current_section.content[current_subsection].type = "subsection"
    /\ current_section.content[current_subsection].content # <<>>

\* ------------------------------------------------------------------------
\* Properties of extract_pdf
\* ------------------------------------------------------------------------

\* the vertical span of the block lies fully inside the bounding box of a
\* table of the page
SpanInsideTable(page, block) ==
    \E t \in Range(page.tables) : t.top <= block.y0 /\ block.y1 <= t.bottom

\* the output lines a text block can give when it is read
BlockLines(block) ==
    LET text  == Strip(block.text)
        m     == PdfEmailSearch(text)
        line  == NormaliseBullet(text)
    IN  IF m.start # 0 /\ ~StartsWith(text, L_Email)
        THEN {Strip(SubSeq(text, 1, m.start - 1)), SubSeq(text, m.start, m.end),
              Strip(From(text, m.end))} \ {<<>>}
        ELSE {IF MatchCaption(line) THEN FixPractice(line) ELSE line}

\* the lines the text blocks of the pages 1..n outside every table can give
OutsideLines(n) ==
    UNION {BlockLines(b) : b \in UNION {{x \in Range(pdf_pages[p].blocks) :
                                            ~SpanInsideTable(pdf_pages[p], x)} : p \in 1..n}}

\* C13: in extract_pdf a text block whose vertical span lies fully inside
\* the bounding box of a table of its page gives no output line: every line
\* of the output, the title and the text of every Paragraph come from a
\* block outside every table of its page.
C13_BlocksInsideTablesGiveNoLine ==
    /\ Range(output) \subseteq OutsideLines(page_num)
    /\ pdf_pc = "done" =>
           /\ pdf_result.metadata.title \in OutsideLines(page_num) \cup {<<>>}
           /\ \A n \in DOMAIN pdf_result.body :
                  pdf_result.body[n].text \in OutsideLines(page_num)

\* C13 witness: a page had the block "cell" inside its table and the block
\* "Title" outside: the run returned the title and the Table, and no
\* Paragraph
C13_Witness ==
    /\ pdf_pc = "done"
    /\ \E p \in DOMAIN pdf_pages :
           /\ \E b \in Range(pdf_pages[p].blocks) :
                  /\ b.text = T_Cell /\ b.block_type = 0
                  /\ SpanInsideTable(pdf_pages[p], b)
           /\ \A b \in Range(pdf_pages[p].blocks) :
                  b.text = T_Cell => SpanInsideTable(pdf_pages[p], b)
    /\ Len(pdf_pages) = 1
    /\ pdf_result.metadata.title = T_Title
    /\ pdf_result.body = <<>>
    /\ Len(pdf_result.tables) = 1
    /\ pdf_result.tables[1].header[1] = T_Cell

\* the number of images of the pages 1..n
RECURSIVE ImagesUpTo(_)
ImagesUpTo(n) == IF n = 0 THEN 0 ELSE ImagesUpTo(n - 1) + Len(pdf_pages[n].images)

UsedImages == {k \in DOMAIN image_used : image_used[k]}

\* the Figure of the image k of the page p, once the page has been read
FigureOfImage(p, k) == figures[ImagesUpTo(p - 1) + k]

\* the Figure an unused image gets
UnlabeledName(p, k) ==
    L_image \o <<"_">> \o ToStr(p) \o <<"_">> \o ToStr(k) \o <<".">> \o pdf_pages[p].images[k].ext

\* the item the loop of the page is at is a caption line, and the line
CaptionLineAt ==
    /\ pdf_pc = "items" /\ item_idx < Len(combined)
    /\ combined[item_idx + 1].kind = "text"
    /\ LET b == combined[item_idx + 1].block
       IN  /\ b.block_type = 0
           /\ ~SpanInsideTable(Page, b)
           /\ PdfEmailSearch(Strip(b.text)).start = 0 \/ StartsWith(Strip(b.text), L_Email)
           /\ MatchCaption(NormaliseBullet(Strip(b.text)))

CaptionLine == FixPractice(NormaliseBullet(Strip(combined[item_idx + 1].block.text)))

\* C19: in extract_pdf every image of a page gives exactly one Figure.  The
\* images of a page are used from the lowest index on; when a page has been
\* read it has given as many Figures as it has images, the Figure of an
\* image being that of a caption line or, for an image no caption took,
\* the one named image_<page>_<index>; a caption line binds the lowest
\* unused image of the page and marks it, and a caption line met when every
\* image is used is appended to the output.
C19_OneFigurePerImage ==
    /\ [](/\ \A a, b \in DOMAIN image_used : (a < b /\ image_used[b]) => image_used[a]
          /\ pdf_pc = "items" =>
                 Len(figures) = ImagesUpTo(page_num - 1) + Cardinality(UsedImages)
          /\ pdf_pc \in {"page", "done"} =>
                 /\ Len(figures) = ImagesUpTo(page_num)
                 /\ \A p \in 1..page_num : \A k \in DOMAIN pdf_pages[p].images :
                        LET fig  == FigureOfImage(p, k)
                            ext  == pdf_pages[p].images[k].ext
                        IN  \/ /\ MatchCaption(fig.caption)
                               /\ fig.content = media_dir \o <<"/">>
                                      \o sanitize_filename(fig.caption) \o <<".">> \o ext
                            \/ /\ fig.caption = UnlabeledName(p, k)
                               /\ fig.content = media_dir \o <<"/">> \o UnlabeledName(p, k))
    /\ [][CaptionLineAt =>
            IF UsedImages = DOMAIN image_used
            THEN /\ output' = Append(output, CaptionLine)
                 /\ UNCHANGED <<figures, image_used>>
            ELSE /\ image_used' = [image_used EXCEPT
                                      ![MinOf(DOMAIN image_used \ UsedImages)] = TRUE]
                 /\ Len(figures') = Len(figures) + 1
                 /\ figures'[Len(figures')].caption = CaptionLine
                 /\ SubSeq(figures', 1, Len(figures)) = figures
                 /\ UNCHANGED output]_vars

\* C19 witness: a page with one image and the caption lines "Fig 1: A" and
\* "fig 2: a" gave one Figure, that of the first caption, and the second
\* caption became text
C19_Witness ==
    /\ pdf_pc = "done"
    /\ Len(pdf_pages) = 1 /\ Len(pdf_pages[1].images) = 1
    /\ Len(pdf_result.metadata.figures) = 1
    /\ pdf_result.metadata.figures[1].caption = <<"F","i","g"," ","1",":"," ","A">>
    /\ pdf_result.metadata.title = <<"f","i","g"," ","2",":"," ","a">>

\* ------------------------------------------------------------------------
\* Properties of the passes of extract_docx taken together
\* ------------------------------------------------------------------------

\* the roles in which a paragraph gives an element of the output
OutputRoles ==
    {"title", "author", "abstract", "keywords", "figure", "list", "paragraph", "reference"}

\* C23: when extract_docx has returned, no paragraph has given more than
\* one element of the output: a paragraph that is an entry of references
\* is no Paragraph, List item or Figure of body, and a title, author,
\* abstract or keywords paragraph is in neither body nor references.
C23_EachParagraphOnce ==
    pc = "done" =>
        \A k \in Indices : Cardinality(consumed[k + 1] \cap OutputRoles) <= 1

\* ------------------------------------------------------------------------
\* Properties of two runs on one directory
\* ------------------------------------------------------------------------

\* the file extract_docx gives the k-th figure it saves
FigureFile(k) ==
    media_dir \o <<"/">> \o L_figure_ \o ToStr(k) \o <<".">>
        \o (IF rels[FirstImageRel].format # <<>> THEN Lower(rels[FirstImageRel].format)
            ELSE L_png)

\* the number of images of the pages extract_pdf has finished
ImagesOfPages ==
    LET F[p \in 0..Len(pdf_pages)] ==
            IF p = 0 THEN 0 ELSE F[p - 1] + Len(pdf_pages[p].images)
    IN  F[Len(pdf_pages)]

\* a step changes the variables of one run, and a figure caption of
\* extract_docx adds the record of the file figure_<fig_count> or nothing
OneRunSteps ==
    /\ (UNCHANGED docxButFiles) \/ (UNCHANGED pdfVars)
    /\ (CaptionAt /\ i' # i) =>
          \/ content' = content
          \/ /\ Len(content'.metadata.figures) = fig_count
             /\ content'.metadata.figures[fig_count].path = FigureFile(fig_count)
             /\ fig_count' = fig_count + 1

====
